---- MODULE Spec2Model ----
(***************************************************************************)
(* Channel domain state store of the Lorekeeper TRPG bot                   *)
(* (src/domain_manager.py and its callers in src/main.py).                 *)
(*                                                                         *)
(* One channel's persisted session file is the state.  Every store         *)
(* operation is one action: load (get_domain), transform, save.            *)
(* Where the module defines a function twice, Python binds the name to the *)
(* later definition; that one is modelled.                                 *)
(***************************************************************************)
EXTENDS Integers, Sequences, FiniteSets, TLC

VARIABLES
    file,     \* the channel's session file: [kind, rec]
    ret,      \* the last store call: its name, arguments and result
    nmsg,     \* number of history messages created so far (their ids)
    tasks,    \* the on_message tasks in flight: where each is suspended and
              \* the local variables it holds across the await
    disk,     \* the other files of the data directory, by path: the lore,
              \* rules and lore summary of every channel and the session
              \* files of the other channels
    shared    \* the dicts and the list inside the module-level
              \* DEFAULT_WORLD_STATE, which every default record refers to

vars == <<file, ret, nmsg, tasks, disk, shared>>

----------------------------------------------------------------------------
(* Program constants *)

MAX_HISTORY_LENGTH == 40
SessionListCap == 20      \* combined[-20:] of the superseded update_session_ai_memory

----------------------------------------------------------------------------
(* Bounds of the model *)

MaxAppends == 50       \* append_history calls explored
MaxMissing == 1        \* keys a persisted record may lack (besides "all")
MaxListLen == 2        \* length of an incoming list in an update
MaxEvents == 22        \* distinct key events recorded
MaxChats == 1          \* chat messages handled in the lifecycle specification
MaxTurns == 2          \* chat messages answered by the language model
MaxParagraphs == 1     \* paragraphs of a lore or rules text
MaxQuests == 3         \* quests taken on a channel
MaxTokens == 2         \* indices and keywords in one complete_quest call
MaxAwards == 3         \* xp cheats in one behaviour

Users == {"u1", "u2"}
Items == {"p", "q"}                 \* entries of list-shaped memory fields
MapKeys == {"a", "b"}               \* keys of map-shaped memory fields
MapVals == {"x", "y", "z"}          \* values of map-shaped memory fields
Absent == "-"                       \* marks a key a map does not have
InitHistLens == {0, 20, 39, 40, 43}        \* lengths of the history persisted at start

----------------------------------------------------------------------------
(* Values of the loosely typed memory fields: str, list, dict, or no key *)

EmptyMap == [k \in MapKeys |-> Absent]
NoneV == [t |-> "none", s |-> "", l |-> <<>>, m |-> EmptyMap]
StrV(x) == [t |-> "str", s |-> x, l |-> <<>>, m |-> EmptyMap]
ListV(x) == [t |-> "list", s |-> "", l |-> x, m |-> EmptyMap]
DictV(x) == [t |-> "dict", s |-> "", l |-> <<>>, m |-> x]

isinstance(v, t) == v.t = t

InList(item, lst) == \E i \in 1..Len(lst) : lst[i] = item

----------------------------------------------------------------------------
(* Schema *)

TopFields == {"participants", "npcs", "history", "quest_board", "world_state",
              "settings", "active_genres", "custom_tone", "prepared",
              "disabled", "last_export_idx", "ai_session_memory"}
ExtraFields == {"future_field"}     \* a key this schema version does not know

WorldStateFields == {"time_slot", "weather", "day", "doom", "doom_name",
                     "risk_level", "current_location", "location_rules",
                     "world_constraints", "active_threads",
                     "last_temporal_context"}
QuestBoardFields == {"active", "completed", "memos", "archive", "lore"}
SettingsFields == {"response_mode", "session_locked", "growth_system"}

AiMemoryFields == {"appearance", "personality", "background", "relationships",
                   "passives", "known_info", "foreshadowing", "normalization",
                   "notes"}
SessionMemoryFields == {"world_summary", "current_arc", "active_threads",
                        "resolved_threads", "key_events", "foreshadowing",
                        "world_changes", "npc_summaries", "party_dynamics",
                        "last_updated"}

DEFAULT_WORLD_STATE ==
    [time_slot |-> "afternoon", weather |-> "clear", day |-> 1, doom |-> 0,
     doom_name |-> "crisis", risk_level |-> "None",
     current_location |-> "Unknown", location_rules |-> EmptyMap,
     world_constraints |-> EmptyMap, active_threads |-> <<>>,
     last_temporal_context |-> EmptyMap]

DefaultSessionMemory ==
    [k \in SessionMemoryFields |->
        CASE k \in {"active_threads", "resolved_threads", "key_events",
                    "foreshadowing", "world_changes"} -> ListV(<<>>)
          [] k = "npc_summaries" -> DictV(EmptyMap)
          [] OTHER -> StrV("")]

NoParticipants == [u \in {} |-> 0]

\* _get_default_session: the value of every top-level key; keys and sub
\* record which keys the dict, and its nested dicts, hold.
_get_default_session ==
    [keys |-> TopFields,
     sub |-> [world_state |-> WorldStateFields,
              quest_board |-> QuestBoardFields,
              settings |-> SettingsFields],
     participants |-> NoParticipants,
     npcs |-> EmptyMap,
     history |-> <<>>,
     quest_board |-> [active |-> <<>>, completed |-> <<>>, memos |-> <<>>,
                      archive |-> <<>>, lore |-> <<>>],
     world_state |-> DEFAULT_WORLD_STATE,
     settings |-> [response_mode |-> "auto", session_locked |-> FALSE,
                   growth_system |-> "standard"],
     active_genres |-> <<"noir">>,
     custom_tone |-> "None",
     prepared |-> FALSE,
     disabled |-> FALSE,
     last_export_idx |-> 0,
     ai_session_memory |-> DefaultSessionMemory,
     future_field |-> ""]

----------------------------------------------------------------------------
(* File I/O *)

NoRec == _get_default_session
AbsentFile == [kind |-> "absent", rec |-> NoRec]
TruncatedFile == [kind |-> "truncated", rec |-> NoRec]
MalformedFile == [kind |-> "malformed", rec |-> NoRec]
JsonFile(data) == [kind |-> "json", rec |-> data]
\* a file open() cannot read
UnreadableFile == [kind |-> "unreadable", rec |-> NoRec]
\* well-formed JSON texts that json.load decodes to something else than a
\* dict, and a JSON object whose "world_state" is null
NonObjectKinds == {"json_list", "json_string", "json_number", "json_null"}
NonObjectFile(kind) == [kind |-> kind, rec |-> NoRec]
NullWorldStateFile == [kind |-> "json_world_state_null", rec |-> NoRec]

IoOutcomes == {"ok", "open_fail", "write_fail"}

\* load_json: the decoded object, or default_val when the file does not
\* exist or json.load raises.
load_json(f, default_val) ==
    IF f.kind = "json" THEN f.rec ELSE default_val

\* save_json: open(filepath, 'w') truncates the file, json.dump then writes
\* it chunk by chunk.  io = "open_fail": open raises, nothing is touched.
\* io = "write_fail": dump raises after the truncation, a prefix is left.
save_json(f, data, io) ==
    CASE io = "ok" -> JsonFile(data)
      [] io = "open_fail" -> f
      [] OTHER -> TruncatedFile

\* the record is rebuilt from the keys of the schema
BackfillTop_schema(data, default_session) ==
    [k \in DOMAIN data |->
        CASE k = "keys" -> TopFields
          [] k \in TopFields ->
                IF k \in data.keys THEN data[k] ELSE default_session[k]
          [] k = "sub" ->
                [n \in DOMAIN data.sub |->
                    IF n \in data.keys THEN data.sub[n]
                    ELSE default_session.sub[n]]
          [] OTHER -> default_session[k]]

\* for key, default_value in default_session.items():
\*     if key not in data: data[key] = default_value
BackfillTop(data, default_session) ==
    [k \in DOMAIN data |->
        CASE k = "keys" -> data.keys \cup TopFields
          [] k \in TopFields ->
                IF k \in data.keys THEN data[k] ELSE default_session[k]
          [] k = "sub" ->
                [n \in DOMAIN data.sub |->
                    IF n \in data.keys THEN data.sub[n]
                    ELSE default_session.sub[n]]
          [] OTHER -> data[k]]

BackfillWorldState_skipped(data) == data

\* the loop stops after the first key it fills
BackfillWorldState_first(data) ==
    IF "world_state" \in data.keys /\ data.sub.world_state # WorldStateFields
    THEN LET w == CHOOSE k \in WorldStateFields : k \notin data.sub.world_state
         IN  [data EXCEPT !.world_state[w] = DEFAULT_WORLD_STATE[w],
                          !.sub.world_state = @ \cup {w}]
    ELSE data

\* if "world_state" in data:
\*     for ws_key, ws_default in DEFAULT_WORLD_STATE.items():
\*         if ws_key not in data["world_state"]: ...[ws_key] = ws_default
BackfillWorldState(data) ==
    IF "world_state" \in data.keys
    THEN [data EXCEPT
            !.world_state = [k \in WorldStateFields |->
                                IF k \in data.sub.world_state
                                THEN data.world_state[k]
                                ELSE DEFAULT_WORLD_STATE[k]],
            !.sub.world_state = @ \cup WorldStateFields]
    ELSE data

\* get_domain catches nothing: `key not in data` raises TypeError on a number
\* or null, `data[key] = default_value` on a list or a string, and
\* `ws_key not in data["world_state"]` on a world_state that is null.
get_domain_raises(f) ==
    f.kind \in NonObjectKinds \cup {"json_world_state_null"}

\* the record get_domain returns, where it returns
get_domain(f) ==
    BackfillWorldState(
        BackfillTop(load_json(f, _get_default_session), _get_default_session))

save_domain(f, data, io) == save_json(f, data, io)

----------------------------------------------------------------------------
(* The data directory: one session file, one lore text, one rules text and   *)
(* one lore summary per channel, each at a path made from the channel id.    *)

Channels == {"10", "20"}
Home == "10"                \* the channel whose session file is `file`

SESSIONS_DIR == "data/sessions"
LORE_DIR == "data/lores"
LORE_SUMMARY_DIR == "data/lore_summaries"
RULES_DIR == "data/rules"

\* os.path.join
path_join(dir, name) == dir \o "/" \o name

\* every channel's record is kept in one file
get_session_file_path_shared(channel_id) ==
    path_join(SESSIONS_DIR, "session.json")

get_session_file_path(channel_id) ==
    path_join(SESSIONS_DIR, channel_id \o ".json")
get_lore_file_path(channel_id) == path_join(LORE_DIR, channel_id \o ".txt")
get_lore_summary_file_path(channel_id) ==
    path_join(LORE_SUMMARY_DIR, channel_id \o "_summary.txt")
get_rules_file_path(channel_id) == path_join(RULES_DIR, channel_id \o ".txt")

\* files_to_remove of reset_domain, in its order
ChannelPaths(channel_id) ==
    <<get_session_file_path(channel_id), get_lore_file_path(channel_id),
      get_rules_file_path(channel_id), get_lore_summary_file_path(channel_id)>>

HomePath == get_session_file_path(Home)
DiskPaths ==
    UNION {{ChannelPaths(c)[i] : i \in 1..4} : c \in Channels} \ {HomePath}

\* a text is the sequence of its paragraphs; a blank line separates two
TextFile(text) == [kind |-> "text", text |-> text]
DEFAULT_LORE == <<"[genre: unset]">>
DEFAULT_RULES == <<"[rules: narrative growth]">>

EmptyDisk == [p \in DiskPaths |-> AbsentFile]

\* the file system as the store functions see it
Fs(f, dk) == [file |-> f, disk |-> dk]
FsRead(fs, path) == IF path = HomePath THEN fs.file ELSE fs.disk[path]
FsWrite(fs, path, content) ==
    IF path = HomePath THEN [fs EXCEPT !.file = content]
    ELSE [fs EXCEPT !.disk[path] = content]

exists(fs, path) == FsRead(fs, path).kind # "absent"
os_remove(fs, path) == FsWrite(fs, path, AbsentFile)

load_text(fs, path, default_val) ==
    IF FsRead(fs, path).kind = "text" THEN FsRead(fs, path).text
    ELSE default_val

save_text(fs, path, text) == FsWrite(fs, path, TextFile(text))

get_lore(fs, channel_id) ==
    load_text(fs, get_lore_file_path(channel_id), DEFAULT_LORE)

\* text if current == DEFAULT_LORE else f"{current}\n\n{text}"
append_lore(fs, channel_id, text) ==
    LET current == get_lore(fs, channel_id)
    IN  save_text(fs, get_lore_file_path(channel_id),
                  IF current = DEFAULT_LORE THEN text ELSE current \o text)

reset_lore(fs, channel_id) ==
    os_remove(os_remove(fs, get_lore_file_path(channel_id)),
              get_lore_summary_file_path(channel_id))

\* the summary, or None (here the empty text) when there is none
get_lore_summary(fs, channel_id) ==
    load_text(fs, get_lore_summary_file_path(channel_id), <<>>)

save_lore_summary(fs, channel_id, summary_text) ==
    save_text(fs, get_lore_summary_file_path(channel_id), summary_text)

get_rules(fs, channel_id) ==
    load_text(fs, get_rules_file_path(channel_id), DEFAULT_RULES)

append_rules(fs, channel_id, text) ==
    LET current == get_rules(fs, channel_id)
    IN  save_text(fs, get_rules_file_path(channel_id),
                  IF current = DEFAULT_RULES THEN text ELSE current \o text)

reset_rules(fs, channel_id) == os_remove(fs, get_rules_file_path(channel_id))

RECURSIVE RemoveEach(_, _)
RemoveEach(fs, paths) ==
    IF paths = <<>> THEN fs
    ELSE RemoveEach(os_remove(fs, Head(paths)), Tail(paths))

\* only the session file is removed
reset_domain_session_only(fs, channel_id) ==
    os_remove(fs, get_session_file_path(channel_id))

\* reset_domain: os.remove on each of files_to_remove that exists
reset_domain(fs, channel_id) == RemoveEach(fs, ChannelPaths(channel_id))

\* The nested dicts and the list of DEFAULT_WORLD_STATE.  .copy() is shallow
\* and the backfill assigns ws_default itself, so a record loaded from
\* defaults holds these very objects.
SharedKeys == {"location_rules", "world_constraints", "active_threads",
               "last_temporal_context"}
SharedDefaults == [k \in SharedKeys |-> DEFAULT_WORLD_STATE[k]]

\* the world_state keys of the loaded record that come from
\* DEFAULT_WORLD_STATE
BackfilledWorldKeys(f) ==
    IF f.kind = "json" /\ "world_state" \in f.rec.keys
    THEN WorldStateFields \ f.rec.sub.world_state
    ELSE WorldStateFields

\* the record get_domain returns while the shared objects hold sh
get_domain_sharing(f, sh) ==
    LET d == get_domain(f)
    IN  [d EXCEPT !.world_state =
            [k \in WorldStateFields |->
                IF k \in SharedKeys \cap BackfilledWorldKeys(f) THEN sh[k]
                ELSE d.world_state[k]]]

\* d["world_state"]["location_rules"] = rules rebinds the key: the object
\* it held is not touched
set_location_rules(f, rules, io) ==
    LET d == get_domain(f)
    IN  save_domain(f, [d EXCEPT !.world_state.location_rules = rules], io)

SessionFileOf(fs, channel_id) == FsRead(fs, get_session_file_path(channel_id))

LoreTexts == {<<"L">>}
RulesTexts == {<<"R">>}
SummaryTexts == {<<"S">>}

----------------------------------------------------------------------------
(* Participants *)

DisplayNameOf == [u \in Users |-> IF u = "u1" THEN "Kai" ELSE "Rin"]
MaskTargets == {"Mask"}
Statuses == {"active", "away", "afk", "left"}

DefaultAiMemory ==
    [k \in AiMemoryFields |->
        CASE k \in {"relationships", "normalization"} -> DictV(EmptyMap)
          [] k \in {"passives", "known_info", "foreshadowing"} -> ListV(<<>>)
          [] OTHER -> StrV("")]

NoAiMemory == [k \in AiMemoryFields |-> NoneV]
NoCoreStats == [hp |-> 0, max_hp |-> 0, mp |-> 0, max_mp |-> 0, level |-> 0,
                xp |-> 0, next_xp |-> 0, gold |-> 0]

\* keys of a participant says which of the optional keys "ai_memory",
\* "core_stats", "level" and "next_xp" the dict holds.
\* _create_default_participant: no "core_stats", "level" or "next_xp" key.
_create_default_participant(display_name) ==
    [keys |-> {"ai_memory"},
     mask |-> display_name,
     status |-> "active",
     inventory |-> [i \in Items |-> 0],
     status_effects |-> <<>>,
     ai_memory |-> DefaultAiMemory,
     description |-> "",
     passives |-> <<>>,
     xp |-> 0,
     core_stats |-> NoCoreStats,
     level |-> 0,
     next_xp |-> 0]

\* dict.get(key, default) on the optional integer keys of a participant
PGet(p, key, default) == IF key \in p.keys THEN p[key] ELSE default

\* the else branch of update_participant: an existing participant
ReactivateParticipant(p) ==
    LET p1 == [p EXCEPT !.status = "active"]
        p2 == IF "ai_memory" \notin p1.keys
              THEN [p1 EXCEPT
                      !.keys = @ \cup {"ai_memory"},
                      !.ai_memory =
                          [DefaultAiMemory EXCEPT
                              !["appearance"] = StrV(p1.description),
                              !["passives"] = ListV(p1.passives)]]
              ELSE p1
    IN  IF "core_stats" \notin p2.keys
        THEN [p2 EXCEPT
                !.keys = @ \cup {"core_stats"},
                !.core_stats = [hp |-> 100, max_hp |-> 100, mp |-> 50,
                                max_mp |-> 50,
                                level |-> PGet(p2, "level", 1),
                                xp |-> p2.xp,
                                next_xp |-> PGet(p2, "next_xp", 100),
                                gold |-> 0]]
        ELSE p2

SetParticipant(d, uid, p) ==
    [d EXCEPT !.participants =
        [u \in (DOMAIN d.participants) \cup {uid} |->
            IF u = uid THEN p ELSE d.participants[u]]]

\* nothing is registered while the session is locked
UpdateParticipantData_locked(d, uid, reset) ==
    IF d.settings.session_locked THEN d
    ELSE IF reset \/ uid \notin DOMAIN d.participants
    THEN SetParticipant(d, uid, _create_default_participant(DisplayNameOf[uid]))
    ELSE SetParticipant(d, uid, ReactivateParticipant(d.participants[uid]))

\* the record update_participant saves
UpdateParticipantData(d, uid, reset) ==
    IF reset \/ uid \notin DOMAIN d.participants
    THEN SetParticipant(d, uid, _create_default_participant(DisplayNameOf[uid]))
    ELSE SetParticipant(d, uid, ReactivateParticipant(d.participants[uid]))

\* update_participant: the file it leaves; it returns True in every case
update_participant(f, uid, reset, io) ==
    save_domain(f, UpdateParticipantData(get_domain(f), uid, reset), io)

update_participant_result == TRUE

get_participant_data(f, uid) ==
    LET d == get_domain(f)
    IN  IF uid \in DOMAIN d.participants
        THEN [found |-> TRUE, data |-> d.participants[uid]]
        ELSE [found |-> FALSE, data |-> _create_default_participant("")]

get_participant_status(f, uid) ==
    LET d == get_domain(f)
    IN  IF uid \in DOMAIN d.participants
        THEN d.participants[uid].status ELSE "active"

----------------------------------------------------------------------------
(* History *)

HistoryEntry(role, content) == [role |-> role, content |-> content]
Message(id) == [id |-> id, text |-> "msg", mask |-> "", reason |-> ""]
DepartureMessage(mask, reason) ==
    [id |-> 0, text |-> "left", mask |-> mask, reason |-> reason]

LastN_oldest(s, n) == IF Len(s) <= n THEN s ELSE SubSeq(s, 1, n)

\* d["history"][-MAX_HISTORY_LENGTH:]
LastN(s, n) == IF Len(s) <= n THEN s ELSE SubSeq(s, Len(s) - n + 1, Len(s))

AppendHistoryData(d, role, content) ==
    LET h == Append(d.history, HistoryEntry(role, content))
    IN  [d EXCEPT !.history =
            IF Len(h) > MAX_HISTORY_LENGTH
            THEN LastN(h, MAX_HISTORY_LENGTH) ELSE h]

\* the entry is added twice
append_history_twice(f, role, content, io) ==
    LET d == get_domain(f)
    IN  save_domain(f, AppendHistoryData(AppendHistoryData(d, role, content),
                                         role, content), io)

append_history(f, role, content, io) ==
    save_domain(f, AppendHistoryData(get_domain(f), role, content), io)

\* leaving deletes the participant
set_participant_status_removing(f, uid, status, reason, io) ==
    LET d == get_domain(f)
    IN  IF uid \in DOMAIN d.participants /\ status = "left"
        THEN save_domain(f,
                 [d EXCEPT !.participants =
                     [u \in (DOMAIN d.participants) \ {uid} |->
                         d.participants[u]]],
                 io)
        ELSE save_domain(f,
                 IF uid \in DOMAIN d.participants
                 THEN [d EXCEPT !.participants[uid].status = status]
                 ELSE d,
                 io)

\* set_participant_status: d is loaded first; append_history loads and saves
\* the file on its own; the final save_domain writes d.
set_participant_status(f, uid, status, reason, io) ==
    LET d == get_domain(f)
        known == uid \in DOMAIN d.participants
        d1 == IF known
              THEN [d EXCEPT !.participants[uid].status = status]
              ELSE d
        f1 == IF known /\ status = "left" /\ reason # ""
              THEN append_history(f, "System",
                       DepartureMessage(d.participants[uid].mask, reason), io)
              ELSE f
    IN  save_domain(f1, d1, io)

set_user_mask(f, uid, mask, io) ==
    LET d == get_domain(f)
    IN  IF uid \in DOMAIN d.participants
        THEN save_domain(f, [d EXCEPT !.participants[uid].mask = mask], io)
        ELSE f

set_session_lock(f, locked, io) ==
    LET d == get_domain(f)
    IN  save_domain(f, [d EXCEPT !.settings.session_locked = locked], io)

set_prepared(f, prepared, io) ==
    LET d == get_domain(f)
    IN  save_domain(f, [d EXCEPT !.prepared = prepared], io)

is_prepared(f) == get_domain(f).prepared

----------------------------------------------------------------------------
(* Field merge: update_ai_memory and update_session_ai_memory *)

\* membership tested against the list as it was before the loop
MergeList_snapshot(existing, incoming) ==
    existing \o SelectSeq(incoming, LAMBDA item : ~InList(item, existing))

\* for item in value: if item not in ai_mem[key]: ai_mem[key].append(item)
RECURSIVE MergeList(_, _)
MergeList(existing, incoming) ==
    IF incoming = <<>> THEN existing
    ELSE MergeList(IF InList(Head(incoming), existing) THEN existing
                   ELSE Append(existing, Head(incoming)),
                   Tail(incoming))

MergeDict_replaced(existing, incoming) == incoming

\* ai_mem[key].update(value)
MergeDict(existing, incoming) ==
    [k \in MapKeys |-> IF incoming[k] # Absent THEN incoming[k] ELSE existing[k]]

\* the merge flag is not consulted
MergeValue_always(cur, value, merge) ==
    IF isinstance(value, "dict") /\ isinstance(cur, "dict")
    THEN DictV(MergeDict(cur.m, value.m))
    ELSE IF isinstance(value, "list") /\ isinstance(cur, "list")
    THEN ListV(MergeList(cur.l, value.l))
    ELSE value

\* the body of the loop over updates.items(), for one key
MergeValue(cur, value, merge) ==
    IF merge
    THEN IF isinstance(value, "dict") /\ isinstance(cur, "dict")
         THEN DictV(MergeDict(cur.m, value.m))
         ELSE IF isinstance(value, "list") /\ isinstance(cur, "list")
         THEN ListV(MergeList(cur.l, value.l))
         ELSE value
    ELSE value

\* updates maps every key it does not hold to NoneV
ApplyUpdates(mem, updates, merge) ==
    [k \in DOMAIN mem |->
        IF updates[k] = NoneV THEN mem[k]
        ELSE MergeValue(mem[k], updates[k], merge)]

\* the ai_memory dict update_ai_memory works on
AiMemoryOf(p) == IF "ai_memory" \in p.keys THEN p.ai_memory ELSE NoAiMemory

update_ai_memory(f, uid, updates, merge, io) ==
    LET d == get_domain(f)
    IN  IF uid \notin DOMAIN d.participants THEN f
        ELSE LET p == d.participants[uid]
                 mem == ApplyUpdates(AiMemoryOf(p), updates, merge)
             IN  save_domain(f,
                     SetParticipant(d, uid,
                         [p EXCEPT !.keys = @ \cup {"ai_memory"},
                                   !.ai_memory = mem]),
                     io)

update_ai_memory_result(f, uid) == uid \in DOMAIN get_domain(f).participants

set_ai_memory_field(f, uid, field, value, io) ==
    LET d == get_domain(f)
    IN  IF uid \notin DOMAIN d.participants THEN f
        ELSE LET p == d.participants[uid]
             IN  save_domain(f,
                     SetParticipant(d, uid,
                         [p EXCEPT !.keys = @ \cup {"ai_memory"},
                                   !.ai_memory =
                                       [AiMemoryOf(p) EXCEPT ![field] = value]]),
                     io)

OneKey(fields, key, value) == [k \in fields |-> IF k = key THEN value ELSE NoneV]

ListKeys == {"passives", "known_info", "foreshadowing"}

add_to_ai_memory_list(f, uid, list_key, item, io) ==
    IF list_key \notin ListKeys THEN f
    ELSE update_ai_memory(f, uid,
             OneKey(AiMemoryFields, list_key, ListV(<<item>>)), TRUE, io)

add_to_ai_memory_list_result(f, uid, list_key) ==
    list_key \in ListKeys /\ update_ai_memory_result(f, uid)

\* list.remove(item): drops the first occurrence
RECURSIVE RemoveFirst(_, _)
RemoveFirst(lst, item) ==
    IF lst = <<>> THEN <<>>
    ELSE IF Head(lst) = item THEN Tail(lst)
    ELSE <<Head(lst)>> \o RemoveFirst(Tail(lst), item)

remove_from_ai_memory_list_result(f, uid, list_key, item) ==
    LET d == get_domain(f)
    IN  /\ uid \in DOMAIN d.participants
        /\ isinstance(AiMemoryOf(d.participants[uid])[list_key], "list")
        /\ InList(item, AiMemoryOf(d.participants[uid])[list_key].l)

remove_from_ai_memory_list(f, uid, list_key, item, io) ==
    LET d == get_domain(f)
    IN  IF ~remove_from_ai_memory_list_result(f, uid, list_key, item) THEN f
        ELSE save_domain(f,
                 [d EXCEPT !.participants[uid].ai_memory[list_key] =
                     ListV(RemoveFirst(@.l, item))],
                 io)

update_relationship(f, uid, npc_name, description, io) ==
    update_ai_memory(f, uid,
        OneKey(AiMemoryFields, "relationships",
               DictV([k \in MapKeys |->
                         IF k = npc_name THEN description ELSE Absent])),
        TRUE, io)

\* update_session_ai_memory: get_domain has backfilled "ai_session_memory"
update_session_ai_memory(f, updates, merge, now, io) ==
    LET d == get_domain(f)
        mem == ApplyUpdates(d.ai_session_memory, updates, merge)
    IN  save_domain(f,
            [d EXCEPT !.ai_session_memory =
                [mem EXCEPT !["last_updated"] = StrV(now)]],
            io)

\* f"{day}일차: {event}"
EventWithDay(day, event) == <<day, event>>

add_key_event(f, event, now, io) ==
    LET d == get_domain(f)
        day == d.world_state.day
    IN  update_session_ai_memory(f,
            OneKey(SessionMemoryFields, "key_events",
                   ListV(<<EventWithDay(day, event)>>)),
            TRUE, now, io)

----------------------------------------------------------------------------
(* get_domain and save_domain calls a mutator makes, its callees included *)

Calls(loads, saves) == [loads |-> loads, saves |-> saves]
CallsPlus(a, b) == Calls(a.loads + b.loads, a.saves + b.saves)

update_participant_calls == Calls(1, 1)
set_session_lock_calls == Calls(1, 1)
set_prepared_calls == Calls(1, 1)
append_history_calls == Calls(1, 1)
update_session_ai_memory_calls == Calls(1, 1)

\* get_domain; append_history for a known id leaving with a reason;
\* save_domain in every case
set_participant_status_calls(f, uid, status, reason) ==
    IF uid \in DOMAIN get_domain(f).participants /\ status = "left"
       /\ reason # ""
    THEN CallsPlus(Calls(1, 1), append_history_calls)
    ELSE Calls(1, 1)

\* save_domain only under `if uid in d["participants"]`
set_user_mask_calls(f, uid) ==
    IF uid \in DOMAIN get_domain(f).participants THEN Calls(1, 1)
    ELSE Calls(1, 0)

\* `return False` before save_domain for an unknown id
update_ai_memory_calls(f, uid) ==
    IF uid \in DOMAIN get_domain(f).participants THEN Calls(1, 1)
    ELSE Calls(1, 0)

\* get_domain for the day, then update_session_ai_memory
add_key_event_calls == CallsPlus(Calls(1, 0), update_session_ai_memory_calls)

----------------------------------------------------------------------------
(* Tasks.  on_message is a coroutine: it runs until it awaits the language   *)
(* model or the chat transport, and other tasks run while it is suspended.   *)

Tasks == {"t1", "t2"}
IdleTask == [pc |-> "idle", uid |-> "", mask |-> "",
             p_data |-> _create_default_participant("")]
NoTasks == [t \in Tasks |-> IdleTask]

----------------------------------------------------------------------------
(* Inputs *)

Seqs(S, n) == UNION {[1..k -> S] : k \in 0..n}

IncomingLists == Seqs(Items, MaxListLen)
\* dicts of at most one key
IncomingDicts ==
    {[k \in MapKeys |-> IF k = j THEN v ELSE Absent] :
        j \in MapKeys, v \in MapVals \cup {Absent}}
\* a dict-shaped key receives dicts and one value of each other shape;
\* a list-shaped key receives lists and one value of each other shape
DictKeyValues == {DictV(x) : x \in IncomingDicts}
                 \cup {ListV(<<"p", "p">>), StrV("n")}
ListKeyValues == {ListV(x) : x \in IncomingLists}
                 \cup {DictV([k \in MapKeys |-> "x"]), StrV("n")}
IncomingValues(key) ==
    IF key \in {"relationships", "normalization", "npc_summaries"}
    THEN DictKeyValues ELSE ListKeyValues

MergeKeys == {"relationships", "passives"}     \* ai_memory keys updated
Reasons == {"", "gone"}
Times == {"t1"}

\* a record written before ai_memory and core_stats existed
LegacyParticipant ==
    [_create_default_participant("Old") EXCEPT
        !.keys = {"level"}, !.ai_memory = NoAiMemory,
        !.description = "scar", !.passives = <<"p">>, !.level = 3, !.xp = 7,
        !.status = "left"]

----------------------------------------------------------------------------
(* Store operations as actions *)

Load ==
    /\ ret' = [op |-> "get_domain", raised |-> get_domain_raises(file),
               data |-> IF get_domain_raises(file) THEN NoRec
                        ELSE get_domain(file)]
    /\ UNCHANGED <<file, nmsg, tasks, disk, shared>>

UpdateParticipant(uid, reset, io) ==
    /\ file' = update_participant(file, uid, reset, io)
    /\ ret' = [op |-> "update_participant", uid |-> uid, reset |-> reset,
               io |-> io, val |-> update_participant_result,
               calls |-> update_participant_calls,
               saved |-> UpdateParticipantData(get_domain(file), uid, reset)]
    /\ UNCHANGED <<nmsg, tasks, disk, shared>>

SetParticipantStatus(uid, status, reason, io) ==
    /\ file' = set_participant_status(file, uid, status, reason, io)
    /\ ret' = [op |-> "set_participant_status", uid |-> uid,
               status |-> status, reason |-> reason, io |-> io,
               calls |-> set_participant_status_calls(file, uid, status,
                                                      reason)]
    /\ UNCHANGED <<nmsg, tasks, disk, shared>>

SetUserMask(uid, mask, io) ==
    /\ file' = set_user_mask(file, uid, mask, io)
    /\ ret' = [op |-> "set_user_mask", uid |-> uid, mask |-> mask, io |-> io,
               calls |-> set_user_mask_calls(file, uid)]
    /\ UNCHANGED <<nmsg, tasks, disk, shared>>

SetSessionLock(locked, io) ==
    /\ file' = set_session_lock(file, locked, io)
    /\ ret' = [op |-> "set_session_lock", locked |-> locked, io |-> io,
               calls |-> set_session_lock_calls,
               saved |-> [get_domain(file) EXCEPT
                             !.settings.session_locked = locked]]
    /\ UNCHANGED <<nmsg, tasks, disk, shared>>

SetPrepared(prepared, io) ==
    /\ file' = set_prepared(file, prepared, io)
    /\ ret' = [op |-> "set_prepared", prepared |-> prepared, io |-> io,
               calls |-> set_prepared_calls,
               saved |-> [get_domain(file) EXCEPT !.prepared = prepared]]
    /\ UNCHANGED <<nmsg, tasks, disk, shared>>

AppendHistory(role, io) ==
    /\ nmsg < MaxAppends
    /\ nmsg' = nmsg + 1
    /\ file' = append_history(file, role, Message(nmsg + 1), io)
    /\ ret' = [op |-> "append_history", role |-> role, id |-> nmsg + 1,
               io |-> io, calls |-> append_history_calls,
               saved |-> AppendHistoryData(get_domain(file), role,
                                           Message(nmsg + 1))]
    /\ UNCHANGED <<tasks, disk, shared>>

UpdateAiMemory(uid, updates, merge, io) ==
    /\ file' = update_ai_memory(file, uid, updates, merge, io)
    /\ ret' = [op |-> "update_ai_memory", uid |-> uid, updates |-> updates,
               merge |-> merge, io |-> io,
               calls |-> update_ai_memory_calls(file, uid),
               val |-> update_ai_memory_result(file, uid)]
    /\ UNCHANGED <<nmsg, tasks, disk, shared>>

SetAiMemoryField(uid, field, value, io) ==
    /\ file' = set_ai_memory_field(file, uid, field, value, io)
    /\ ret' = [op |-> "set_ai_memory_field", uid |-> uid, field |-> field,
               value |-> value, io |-> io]
    /\ UNCHANGED <<nmsg, tasks, disk, shared>>

AddToAiMemoryList(uid, list_key, item, io) ==
    /\ file' = add_to_ai_memory_list(file, uid, list_key, item, io)
    /\ ret' = [op |-> "add_to_ai_memory_list", uid |-> uid,
               list_key |-> list_key, item |-> item, io |-> io,
               val |-> add_to_ai_memory_list_result(file, uid, list_key)]
    /\ UNCHANGED <<nmsg, tasks, disk, shared>>

RemoveFromAiMemoryList(uid, list_key, item, io) ==
    /\ file' = remove_from_ai_memory_list(file, uid, list_key, item, io)
    /\ ret' = [op |-> "remove_from_ai_memory_list", uid |-> uid,
               list_key |-> list_key, item |-> item, io |-> io,
               val |-> remove_from_ai_memory_list_result(file, uid, list_key,
                                                         item)]
    /\ UNCHANGED <<nmsg, tasks, disk, shared>>

UpdateRelationship(uid, npc_name, description, io) ==
    /\ file' = update_relationship(file, uid, npc_name, description, io)
    /\ ret' = [op |-> "update_relationship", uid |-> uid,
               npc_name |-> npc_name, description |-> description, io |-> io,
               calls |-> update_ai_memory_calls(file, uid),
               val |-> update_ai_memory_result(file, uid)]
    /\ UNCHANGED <<nmsg, tasks, disk, shared>>

UpdateSessionAiMemory(updates, merge, now, io) ==
    /\ file' = update_session_ai_memory(file, updates, merge, now, io)
    /\ ret' = [op |-> "update_session_ai_memory", updates |-> updates,
               merge |-> merge, now |-> now, io |-> io,
               calls |-> update_session_ai_memory_calls, val |-> TRUE]
    /\ UNCHANGED <<nmsg, tasks, disk, shared>>

AddKeyEvent(event, now, io) ==
    /\ file' = add_key_event(file, event, now, io)
    /\ ret' = [op |-> "add_key_event", event |-> event, io |-> io,
               calls |-> add_key_event_calls, val |-> TRUE]
    /\ UNCHANGED <<nmsg, tasks, disk, shared>>

----------------------------------------------------------------------------
(* Chat commands of on_message (src/main.py) that register or retire a       *)
(* participant.  Each is the handler from its guards to its return.          *)

get_user_mask(f, uid) ==
    LET d == get_domain(f)
    IN  IF uid \in DOMAIN d.participants
        THEN d.participants[uid].mask ELSE "Unknown"

set_response_mode(f, mode, io) ==
    LET d == get_domain(f)
    IN  save_domain(f, [d EXCEPT !.settings.response_mode = mode], io)

SetResponseMode(mode, io) ==
    /\ file' = set_response_mode(file, mode, io)
    /\ ret' = [op |-> "set_response_mode", mode |-> mode, io |-> io]
    /\ UNCHANGED <<nmsg, tasks, disk, shared>>

is_bot_disabled(f) == get_domain(f).disabled

\* the switch is stored for this call only: the record is saved without it
set_bot_disabled_unsaved(f, disabled, io) == f

set_bot_disabled(f, disabled, io) ==
    LET d == get_domain(f)
    IN  save_domain(f, [d EXCEPT !.disabled = disabled], io)

\* a message whose content is !off (disabled) or !on: nothing is checked
\* before the switch is stored
CmdOnOff(uid, disabled) ==
    /\ file' = set_bot_disabled(file, disabled, "ok")
    /\ ret' = [op |-> "cmd_on_off", uid |-> uid, disabled |-> disabled]
    /\ UNCHANGED <<nmsg, tasks, disk, shared>>

MessageKinds == {"chat", "command", "dice"}

\* any other message while the channel is switched off: on_message returns
\* after is_bot_disabled
MessageWhileOff(uid, kind) ==
    /\ is_bot_disabled(file)
    /\ ret' = [op |-> "message_while_off", uid |-> uid, kind |-> kind]
    /\ UNCHANGED <<file, nmsg, tasks, disk, shared>>
is_participant(f, uid) == get_participant_data(f, uid).found
is_locked(f) == get_domain(f).settings.session_locked

entry_commands == {"ready", "reset", "start", "mask", "lore", "rule", "system"}
allowed_before_ready == {"ready", "lore", "rule", "reset", "system"}

\* the dispatch checks without the one on preparation
CommandAdmitted_unprepared(f, uid, cmd) ==
    /\ ~is_bot_disabled(f)
    /\ is_participant(f, uid) \/ (~is_locked(f) /\ cmd \in entry_commands)

\* the checks a command passes before it is dispatched
CommandAdmitted(f, uid, cmd) ==
    /\ ~is_bot_disabled(f)
    /\ is_participant(f, uid) \/ (~is_locked(f) /\ cmd \in entry_commands)
    /\ is_prepared(f) \/ cmd \in allowed_before_ready

CmdMask(uid, target) ==
    /\ CommandAdmitted(file, uid, "mask")
    /\ LET f1 == IF get_participant_status(file, uid) = "left"
                 THEN update_participant(file, uid, TRUE, "ok") ELSE file
           f2 == update_participant(f1, uid, FALSE, "ok")
       IN  file' = set_user_mask(f2, uid, target, "ok")
    /\ ret' = [op |-> "cmd_mask", uid |-> uid, target |-> target]
    /\ UNCHANGED <<nmsg, tasks, disk, shared>>

CmdAfk(uid) ==
    /\ CommandAdmitted(file, uid, "afk")
    /\ file' = set_participant_status(file, uid, "afk", "", "ok")
    /\ ret' = [op |-> "cmd_afk", uid |-> uid]
    /\ UNCHANGED <<nmsg, tasks, disk, shared>>

CmdLeave(uid) ==
    /\ CommandAdmitted(file, uid, "leave")
    /\ file' = set_participant_status(file, uid, "left", "gone", "ok")
    /\ ret' = [op |-> "cmd_leave", uid |-> uid]
    /\ UNCHANGED <<nmsg, tasks, disk, shared>>

CmdBack(uid) ==
    /\ CommandAdmitted(file, uid, "back")
    /\ file' = update_participant(file, uid, FALSE, "ok")
    /\ ret' = [op |-> "cmd_back", uid |-> uid]
    /\ UNCHANGED <<nmsg, tasks, disk, shared>>

\* the reset command (session_manager.execute_reset), once the author has
\* confirmed: reset_domain.  character_sheet.reset_npc_status, which follows,
\* is not part of these sources and is taken to leave the four files alone.
CmdReset(uid) ==
    /\ CommandAdmitted(file, uid, "reset")
    /\ LET fs == reset_domain(Fs(file, disk), Home)
       IN  /\ file' = fs.file
           /\ disk' = fs.disk
    /\ ret' = [op |-> "cmd_reset", uid |-> uid]
    /\ UNCHANGED <<nmsg, tasks, shared>>

\* execute_reset in its steps: the confirmation message is sent and the
\* handler waits up to five seconds for a reaction that passes its check
ConfirmEmoji == "O"
Emojis == {ConfirmEmoji, "X"}
ReactionTargets == {"t1", "t2", "other"}    \* confirmation message of a task, or another message

\* the check ignores who reacts
reaction_check_anyone(t, msg, user, emoji) ==
    /\ emoji = ConfirmEmoji
    /\ msg = t

\* check(reaction, user) of the handler t
reaction_check(t, msg, user, emoji) ==
    /\ user = tasks[t].uid
    /\ emoji = ConfirmEmoji
    /\ msg = t

ResetRequest(t, uid) ==
    /\ tasks[t].pc = "idle"
    /\ CommandAdmitted(file, uid, "reset")
    /\ tasks' = [tasks EXCEPT ![t].pc = "confirm", ![t].uid = uid]
    /\ ret' = [op |-> "reset_request", task |-> t, uid |-> uid]
    /\ UNCHANGED <<file, nmsg, disk, shared>>

\* a reaction is added to a message: the handler whose check it passes
\* resumes and resets the channel, every other handler keeps waiting
ReactionAdd(msg, user, emoji) ==
    LET passed == {t \in DOMAIN tasks :
                      /\ tasks[t].pc = "confirm"
                      /\ reaction_check(t, msg, user, emoji)}
    IN  IF passed # {}
        THEN LET t == CHOOSE x \in passed : TRUE
                 fs == reset_domain(Fs(file, disk), Home)
             IN  /\ file' = fs.file
                 /\ disk' = fs.disk
                 /\ tasks' = [tasks EXCEPT ![t].pc = "idle", ![t].uid = ""]
                 /\ ret' = [op |-> "reset_confirmed", task |-> t,
                            uid |-> tasks[t].uid, user |-> user,
                            emoji |-> emoji]
                 /\ UNCHANGED <<nmsg, shared>>
        ELSE /\ ret' = [op |-> "reaction_ignored", task |-> msg,
                        uid |-> "", user |-> user, emoji |-> emoji]
             /\ UNCHANGED <<file, nmsg, tasks, disk, shared>>

\* wait_for raises asyncio.TimeoutError: the request is called off
ResetTimeout(t) ==
    /\ tasks[t].pc = "confirm"
    /\ tasks' = [tasks EXCEPT ![t].pc = "idle", ![t].uid = ""]
    /\ ret' = [op |-> "reset_timeout", task |-> t, uid |-> tasks[t].uid,
               user |-> "", emoji |-> ""]
    /\ UNCHANGED <<file, nmsg, disk, shared>>

\* the functions of domain_manager that session_manager calls and the module
\* defines; a call of another name raises AttributeError
DomainManagerDefines == {"get_lore", "get_rules", "set_prepared", "is_prepared",
                         "reset_domain"}
Defined(name) == name \in DomainManagerDefines

\* SessionManager.check_preparation: the file it leaves and whether it raised.
\* The readiness flag is computed and stored after the call of
\* domain_manager.get_active_participants_summary.
check_preparation(fs, channel_id) ==
    LET lore == get_lore(fs, channel_id)
        rules == get_rules(fs, channel_id)
        ready_flag == lore # <<>> /\ rules # <<>>
        f == SessionFileOf(fs, channel_id)
    IN  IF ~Defined("get_active_participants_summary")
        THEN [file |-> f, raised |-> TRUE, lore |-> lore, rules |-> rules]
        ELSE [file |-> set_prepared(f, ready_flag, "ok"), raised |-> FALSE,
              lore |-> lore, rules |-> rules]

\* SessionManager.start_session: False on a session that is not prepared;
\* on a prepared one the call of domain_manager.toggle_session_lock raises.
start_session(f) ==
    IF ~is_prepared(f) THEN [file |-> f, started |-> FALSE, raised |-> FALSE]
    ELSE [file |-> f, started |-> Defined("toggle_session_lock"),
          raised |-> ~Defined("toggle_session_lock")]

\* the command is dropped, or answered with the request to get ready first
Refused(cmd, uid) ==
    [op |-> cmd, uid |-> uid, admitted |-> FALSE, raised |-> FALSE]

CmdReady(uid) ==
    /\ ~is_bot_disabled(file)
    /\ IF ~CommandAdmitted(file, uid, "ready")
       THEN /\ file' = file
            /\ ret' = Refused("cmd_ready", uid)
       ELSE LET r == check_preparation(Fs(file, disk), Home)
            IN  /\ file' = r.file
                /\ ret' = [op |-> "cmd_ready", uid |-> uid, admitted |-> TRUE,
                           raised |-> r.raised, lore |-> r.lore,
                           rules |-> r.rules]
    /\ UNCHANGED <<nmsg, tasks, disk, shared>>

\* the start command: the author is registered, then start_session
CmdStart(uid) ==
    /\ ~is_bot_disabled(file)
    /\ IF ~CommandAdmitted(file, uid, "start")
       THEN /\ file' = file
            /\ ret' = Refused("cmd_start", uid)
       ELSE LET r == start_session(update_participant(file, uid, FALSE, "ok"))
            IN  /\ file' = r.file
                /\ ret' = [op |-> "cmd_start", uid |-> uid, admitted |-> TRUE,
                           raised |-> r.raised, started |-> r.started]
    /\ UNCHANGED <<nmsg, tasks, disk, shared>>

CmdLock(uid, locked) ==
    /\ ~is_bot_disabled(file)
    /\ IF ~CommandAdmitted(file, uid, IF locked THEN "lock" ELSE "unlock")
       THEN /\ file' = file
            /\ ret' = Refused(IF locked THEN "cmd_lock" ELSE "cmd_unlock", uid)
       ELSE /\ file' = set_session_lock(file, locked, "ok")
            /\ ret' = [op |-> IF locked THEN "cmd_lock" ELSE "cmd_unlock",
                       uid |-> uid, admitted |-> TRUE, raised |-> FALSE]
    /\ UNCHANGED <<nmsg, tasks, disk, shared>>

RuleReset == <<"reset">>        \* the argument that clears the rules

\* handle_rule_command with an argument and no attachment
CmdRule(uid, arg) ==
    /\ CommandAdmitted(file, uid, "rule")
    /\ arg # RuleReset
       => \/ Len(get_rules(Fs(file, disk), Home)) < MaxParagraphs
          \/ get_rules(Fs(file, disk), Home) = DEFAULT_RULES
    /\ LET fs == IF arg = RuleReset THEN reset_rules(Fs(file, disk), Home)
                 ELSE append_rules(Fs(file, disk), Home, arg)
       IN  /\ file' = fs.file
           /\ disk' = fs.disk
    /\ ret' = [op |-> "cmd_rule", uid |-> uid, arg |-> arg]
    /\ UNCHANGED <<nmsg, tasks, shared>>

ChatMessage(id, mask) == [id |-> id, text |-> "say", mask |-> mask, reason |-> ""]

\* the checks a chat message passes before on_message reads the response mode
ChatAdmitted(f, uid) ==
    /\ ~is_bot_disabled(f)
    /\ is_participant(f, uid)
    /\ is_prepared(f)
    /\ is_locked(f)

\* a chat message on_message returns from before any store call
ChatDropped(uid) ==
    /\ ~ChatAdmitted(file, uid)
    /\ ret' = [op |-> "chat_dropped", uid |-> uid]
    /\ UNCHANGED <<file, nmsg, tasks, disk, shared>>

\* the mode command with the argument for manual or for automatic
CmdMode(uid, mode) ==
    /\ CommandAdmitted(file, uid, "mode")
    /\ file' = set_response_mode(file, mode, "ok")
    /\ ret' = [op |-> "cmd_mode", uid |-> uid, mode |-> mode]
    /\ UNCHANGED <<nmsg, tasks, disk, shared>>

\* a chat message in manual response mode: register, record, no AI call
ChatManual(uid) ==
    /\ ~is_bot_disabled(file)
    /\ is_participant(file, uid)
    /\ is_prepared(file)
    /\ is_locked(file)
    /\ get_domain(file).settings.response_mode = "manual"
    /\ nmsg < MaxChats
    /\ nmsg' = nmsg + 1
    /\ LET f1 == update_participant(file, uid, FALSE, "ok")
       IN  file' = append_history(f1, "User",
                       ChatMessage(nmsg + 1, get_user_mask(f1, uid)), "ok")
    /\ ret' = [op |-> "chat_manual", uid |-> uid]
    /\ UNCHANGED <<tasks, disk, shared>>

----------------------------------------------------------------------------
(* A chat message answered by the language model (on_message, "AI response"  *)
(* part).  The handler awaits the analysis call and later the narrative      *)
(* call; each action below is the code between two suspension points.        *)

save_participant_data(f, uid, data, io) ==
    save_domain(f, SetParticipant(get_domain(f), uid, data), io)

set_current_location(f, location, io) ==
    LET d == get_domain(f)
    IN  save_domain(f, [d EXCEPT !.world_state.current_location = location], io)

get_response_mode(f) == get_domain(f).settings.response_mode

\* simulation_manager.grant_ai_passive: a passive of that name is added to
\* user_data["passives"] unless one is there
grant_ai_passive(user_data, name) ==
    IF name = "" \/ InList(name, user_data.passives) THEN user_data
    ELSE [user_data EXCEPT !.passives = Append(@, name)]

\* settings.get("growth_system", "standard")
get_growth_system(f) ==
    LET d == get_domain(f)
    IN  IF "growth_system" \in d.sub.settings THEN d.settings.growth_system
        ELSE "standard"

\* simulation_manager._calc_standard_growth, after xp += amount: the while
\* loop; int(next_xp * 1.2)
RECURSIVE LevelUp(_)
LevelUp(user_data) ==
    IF user_data.xp >= user_data.next_xp /\ user_data.next_xp > 0
    THEN LevelUp([user_data EXCEPT !.xp = @ - user_data.next_xp,
                                   !.level = @ + 1,
                                   !.next_xp = (@ * 12) \div 10])
    ELSE user_data

\* simulation_manager.gain_experience for the growth systems the system
\* command can set: "custom" only adds, every other one levels up
gain_experience(user_data, amount, system_type) ==
    LET u1 == [user_data EXCEPT
                  !.keys = @ \cup {"level", "next_xp"},
                  !.level = PGet(user_data, "level", 1),
                  !.next_xp = PGet(user_data, "next_xp", 100)]
        u2 == [u1 EXCEPT !.xp = @ + amount]
    IN  IF system_type = "custom" THEN u2 ELSE LevelUp(u2)

\* process_ai_system_action for an "XP"/"Award" action of `award` points
\* (0: the analysis proposes no action): the participant is loaded, the
\* experience is added, the participant is saved
process_ai_system_action(f, uid, award) ==
    IF award = 0 THEN f
    ELSE LET p_data == get_participant_data(f, uid)
         IN  IF ~p_data.found THEN f
             ELSE save_participant_data(f, uid,
                      gain_experience(p_data.data, award,
                                      get_growth_system(f)),
                      "ok")

Locations == {"", "Inn"}           \* CurrentLocation of the analysis, "" if none
PassiveSuggestions == {"", "p"}    \* PassiveSuggestion of the analysis
Awards == {0, 10, 100}       \* the XP Award of the analysis

InFlight == {t \in Tasks : tasks[t].pc # "idle"}

\* from the message's arrival to `await memory_system.analyze_context_nvc`
ChatAutoBegin(t, uid) ==
    /\ tasks[t].pc = "idle"
    /\ nmsg + 2 * Cardinality(InFlight) < 2 * MaxTurns
    /\ ~is_bot_disabled(file)
    /\ is_participant(file, uid)
    /\ is_prepared(file)
    /\ is_locked(file)
    /\ LET f1 == update_participant(file, uid, FALSE, "ok")
       IN  /\ get_response_mode(f1) # "manual"
           /\ file' = f1
           /\ tasks' = [tasks EXCEPT ![t] =
                            [pc |-> "analyze", uid |-> uid,
                             mask |-> get_user_mask(f1, uid),
                             p_data |-> get_participant_data(f1, uid).data]]
    /\ ret' = [op |-> "chat_auto_begin", task |-> t, uid |-> uid]
    /\ UNCHANGED <<nmsg, disk, shared>>

\* from the analysis result to the next await: the location is stored, the
\* system action is carried out, the suggested passive is granted on p_data,
\* p_data is saved
ChatAutoCommit(t, location, suggestion, award) ==
    /\ tasks[t].pc = "analyze"
    /\ LET uid == tasks[t].uid
           f1 == IF location # "" THEN set_current_location(file, location, "ok")
                 ELSE file
           f2 == process_ai_system_action(f1, uid, award)
           p1 == grant_ai_passive(tasks[t].p_data, suggestion)
       IN  /\ file' = save_participant_data(f2, uid, p1, "ok")
           /\ tasks' = [tasks EXCEPT ![t].pc = "respond", ![t].p_data = p1]
           /\ ret' = [op |-> "chat_auto_commit", task |-> t, uid |-> uid,
                      award |-> award, awarded |-> get_participant_data(f2, uid),
                      loaded |-> tasks[t].p_data, saved |-> p1]
    /\ UNCHANGED <<nmsg, disk, shared>>

\* only the response is recorded
record_exchange_response_only(f, action_text, response) ==
    append_history(f, "Char", response, "ok")

\* the two append_history calls that end on_message, with no await between
record_exchange(f, action_text, response) ==
    append_history(append_history(f, "User", action_text, "ok"),
                   "Char", response, "ok")

\* from the narrative to the end: both sides of the exchange are recorded
\* when there is a response
ChatAutoFinish(t, responded) ==
    /\ tasks[t].pc = "respond"
    /\ IF responded
       THEN /\ nmsg' = nmsg + 2
            /\ file' = record_exchange(file,
                           ChatMessage(nmsg + 1, tasks[t].mask),
                           Message(nmsg + 2))
       ELSE UNCHANGED <<file, nmsg>>
    /\ tasks' = [tasks EXCEPT ![t] = IdleTask]
    /\ ret' = [op |-> "chat_auto_finish", task |-> t, responded |-> responded]
    /\ UNCHANGED <<disk, shared>>

----------------------------------------------------------------------------
(* Specifications *)

NoCall == [op |-> "init"]

\* The store calls that register, retire and describe participants, on a
\* fresh channel.
Init ==
    /\ file = AbsentFile
    /\ ret = NoCall
    /\ nmsg = 0
    /\ tasks = NoTasks
    /\ disk = EmptyDisk
    /\ shared = SharedDefaults

Next ==
    \/ \E uid \in Users, reset \in BOOLEAN : UpdateParticipant(uid, reset, "ok")
    \/ \E uid \in Users, status \in Statuses, reason \in Reasons :
          SetParticipantStatus(uid, status, reason, "ok")
    \/ \E uid \in Users, mask \in MaskTargets : SetUserMask(uid, mask, "ok")
    \/ \E locked \in BOOLEAN : SetSessionLock(locked, "ok")
    \/ \E uid \in Users : UpdateRelationship(uid, "a", "x", "ok")

Spec == Init /\ [][Next]_vars

\* The chat commands, on a fresh channel.
NextCommands ==
    \/ \E prepared \in BOOLEAN : SetPrepared(prepared, "ok")
    \/ \E locked \in BOOLEAN : SetSessionLock(locked, "ok")
    \/ \E mode \in {"auto", "manual"} : SetResponseMode(mode, "ok")
    \/ UpdateRelationship("u1", "a", "x", "ok")
    \/ \E uid \in Users, target \in MaskTargets : CmdMask(uid, target)
    \/ \E uid \in Users : CmdAfk(uid)
    \/ \E uid \in Users : CmdLeave(uid)
    \/ \E uid \in Users : CmdBack(uid)
    \/ \E uid \in Users : ChatManual(uid)

SpecCommands == Init /\ [][NextCommands]_vars

\* Chat messages of a running session answered by the language model, next
\* to the mask command.
RunningFile ==
    set_session_lock(
        set_prepared(
            update_participant(
                update_participant(AbsentFile, "u1", FALSE, "ok"),
                "u2", FALSE, "ok"),
            TRUE, "ok"),
        TRUE, "ok")

InitAsync ==
    /\ file = RunningFile
    /\ ret = NoCall
    /\ nmsg = 0
    /\ tasks = NoTasks
    /\ disk = EmptyDisk
    /\ shared = SharedDefaults

NextAsync ==
    \/ \E t \in Tasks, uid \in Users : ChatAutoBegin(t, uid)
    \/ \E t \in Tasks, location \in Locations,
           suggestion \in PassiveSuggestions, award \in Awards :
          ChatAutoCommit(t, location, suggestion, award)
    \/ \E t \in Tasks, responded \in BOOLEAN : ChatAutoFinish(t, responded)
    \/ \E uid \in {"u1"}, target \in MaskTargets : CmdMask(uid, target)

SpecAsync == InitAsync /\ [][NextAsync]_vars

\* A running session in which a participant goes away, leaves, comes back,
\* changes mask, and the channel is reset, while a chat message of that
\* participant is being answered.
NextSession ==
    \/ ChatAutoBegin("t1", "u1")
    \/ \E suggestion \in PassiveSuggestions :
          ChatAutoCommit("t1", "", suggestion, 0)
    \/ \E responded \in BOOLEAN : ChatAutoFinish("t1", responded)
    \/ CmdAfk("u1")
    \/ CmdLeave("u1")
    \/ CmdBack("u1")
    \/ \E target \in MaskTargets : CmdMask("u1", target)
    \/ \E uid \in Users : CmdReset(uid)

SpecSession == InitAsync /\ [][NextSession]_vars

\* Two messages handled at once, each recorded when its narrative is there.
NextExchange ==
    \/ \E t \in Tasks, uid \in Users : ChatAutoBegin(t, uid)
    \/ \E t \in Tasks : ChatAutoCommit(t, "", "", 0)
    \/ \E t \in Tasks, responded \in BOOLEAN : ChatAutoFinish(t, responded)
    \/ \E target \in MaskTargets : CmdMask("u1", target)

SpecExchange == InitAsync /\ [][NextExchange]_vars

\* The session lifecycle as the chat commands drive it, on a fresh channel
\* and on a channel whose session file says prepared.
PreparedFile == set_prepared(AbsentFile, TRUE, "ok")

InitLifecycle ==
    /\ file \in {AbsentFile, PreparedFile}
    /\ ret = NoCall
    /\ nmsg = 0
    /\ tasks = NoTasks
    /\ disk = EmptyDisk
    /\ shared = SharedDefaults

NextLifecycle ==
    \/ \E uid \in Users : CmdReady(uid)
    \/ \E uid \in Users : CmdStart(uid)
    \/ \E uid \in Users, locked \in BOOLEAN : CmdLock(uid, locked)
    \/ \E uid \in Users : CmdReset(uid)
    \/ \E uid \in Users, target \in MaskTargets : CmdMask(uid, target)
    \/ \E uid \in Users : CmdLeave(uid)
    \/ \E uid \in Users, arg \in RulesTexts \cup {RuleReset} : CmdRule(uid, arg)

SpecLifecycle == InitLifecycle /\ [][NextLifecycle]_vars

\* Chat messages while the response mode is switched between manual and
\* automatic and the session is locked and unlocked.
NextManual ==
    \/ \E uid \in Users, target \in MaskTargets : CmdMask(uid, target)
    \/ \E uid \in Users, locked \in BOOLEAN : CmdLock(uid, locked)
    \/ \E uid \in Users, mode \in {"auto", "manual"} : CmdMode(uid, mode)
    \/ \E uid \in Users : CmdLeave(uid)
    \/ \E uid \in Users : ChatManual(uid)
    \/ \E uid \in Users : ChatDropped(uid)
    \/ \E disabled \in BOOLEAN : CmdOnOff("u1", disabled)

SpecManual == InitLifecycle /\ [][NextManual]_vars

\* The channel is switched off and on between the commands and the chat
\* messages of a session.
NextOnOff ==
    \/ \E uid \in Users, disabled \in BOOLEAN : CmdOnOff(uid, disabled)
    \/ \E uid \in Users, kind \in MessageKinds : MessageWhileOff(uid, kind)
    \/ \E uid \in Users, target \in MaskTargets : CmdMask(uid, target)
    \/ \E uid \in Users : CmdLock(uid, TRUE)
    \/ \E uid \in Users : CmdReset(uid)
    \/ \E uid \in Users : CmdReady(uid)
    \/ \E uid \in Users, arg \in RulesTexts \cup {RuleReset} : CmdRule(uid, arg)
    \/ \E uid \in Users : ChatDropped(uid)

SpecOnOff == InitLifecycle /\ [][NextOnOff]_vars

\* Re-registration: participants come and go while the session is locked and
\* unlocked; one channel starts with a participant written before ai_memory
\* and core_stats existed.
LegacyAway == [LegacyParticipant EXCEPT !.status = "away"]

InitRejoin ==
    /\ file \in {AbsentFile,
                  JsonFile([_get_default_session EXCEPT
                               !.participants = [u \in {"u1"} |-> LegacyAway]])}
    /\ ret = NoCall
    /\ nmsg = 0
    /\ tasks = NoTasks
    /\ disk = EmptyDisk
    /\ shared = SharedDefaults

NextRejoin ==
    \/ \E uid \in Users : UpdateParticipant(uid, FALSE, "ok")
    \/ \E uid \in Users, status \in Statuses :
          SetParticipantStatus(uid, status, "", "ok")
    \/ \E uid \in Users, mask \in MaskTargets : SetUserMask(uid, mask, "ok")
    \/ \E locked \in BOOLEAN : SetSessionLock(locked, "ok")
    \/ SetPrepared(TRUE, "ok")
    \/ UpdateRelationship("u1", "a", "x", "ok")
    \/ \E uid \in Users : CmdBack(uid)

SpecRejoin == InitRejoin /\ [][NextRejoin]_vars

----------------------------------------------------------------------------
(* History: appends on histories of several persisted lengths (43: a file    *)
(* written under a larger cap).                                              *)

RoleOf(id) == IF id % 2 = 1 THEN "User" ELSE "Char"

PersistedHistory(n) == [i \in 1..n |-> HistoryEntry(RoleOf(i), Message(i))]

InitHistory ==
    /\ \E n \in InitHistLens :
          /\ file = JsonFile([_get_default_session EXCEPT
                                 !.history = PersistedHistory(n)])
          /\ nmsg = n
    /\ ret = NoCall
    /\ tasks = NoTasks
    /\ disk = EmptyDisk
    /\ shared = SharedDefaults

NextHistory ==
    \/ \E role \in {RoleOf(nmsg + 1)} : AppendHistory(role, "ok")
    \/ Load

SpecHistory == InitHistory /\ [][NextHistory]_vars

\* The store calls on a channel whose session file cannot be decoded.
InitMalformed ==
    /\ file = MalformedFile
    /\ ret = NoCall
    /\ nmsg = 0
    /\ tasks = NoTasks
    /\ disk = EmptyDisk
    /\ shared = SharedDefaults

NextMalformed ==
    \/ \E role \in {RoleOf(nmsg + 1)} : AppendHistory(role, "ok")
    \/ \E prepared \in BOOLEAN : SetPrepared(prepared, "ok")
    \/ \E locked \in BOOLEAN : SetSessionLock(locked, "ok")
    \/ \E uid \in Users : UpdateParticipant(uid, FALSE, "ok")
    \/ Load

SpecMalformed == InitMalformed /\ [][NextMalformed]_vars

----------------------------------------------------------------------------
(* Saving: mutators whose save may fail at open or part-way through the dump *)

NextSave ==
    \/ \E prepared \in BOOLEAN, io \in IoOutcomes : SetPrepared(prepared, io)
    \/ \E locked \in BOOLEAN, io \in IoOutcomes : SetSessionLock(locked, io)
    \/ \E uid \in Users, io \in IoOutcomes : UpdateParticipant(uid, FALSE, io)
    \/ Load

SpecSave == Init /\ [][NextSave]_vars

----------------------------------------------------------------------------
(* Migration: loading records that lack keys of the current schema *)

FullRaw ==
    [_get_default_session EXCEPT
        !.keys = TopFields \cup ExtraFields,
        !.history = PersistedHistory(1),
        !.participants = [u \in {"u1"} |-> LegacyParticipant],
        !.world_state = [time_slot |-> "night", weather |-> "rain", day |-> 5,
                         doom |-> 2, doom_name |-> "plague",
                         risk_level |-> "High", current_location |-> "Inn",
                         location_rules |-> [k \in MapKeys |-> "x"],
                         world_constraints |-> [k \in MapKeys |-> "y"],
                         active_threads |-> <<"p">>,
                         last_temporal_context |-> [k \in MapKeys |-> "z"]],
        !.settings = [response_mode |-> "manual", session_locked |-> TRUE,
                      growth_system |-> "custom"],
        !.active_genres = <<"fantasy">>,
        !.custom_tone = "grim",
        !.prepared = TRUE,
        !.disabled = TRUE,
        !.last_export_idx = 4,
        !.npcs = [k \in MapKeys |-> "x"],
        !.quest_board.active = <<"p">>,
        !.ai_session_memory["world_summary"] = StrV("n"),
        !.future_field = "v2"]

\* the raw dict holding the keys K, its world_state holding the keys W
RawRecord(K, W) ==
    [k \in DOMAIN FullRaw |->
        CASE k = "keys" -> K
          [] k = "sub" -> [FullRaw.sub EXCEPT
                              !.world_state = IF "world_state" \in K THEN W
                                              ELSE WorldStateFields]
          [] k = "world_state" ->
                [w \in WorldStateFields |->
                    IF "world_state" \in K /\ w \in W
                    THEN FullRaw.world_state[w] ELSE DEFAULT_WORLD_STATE[w]]
          [] k \in K -> FullRaw[k]
          [] OTHER -> _get_default_session[k]]

MissingSets(F) == {M \in SUBSET F : Cardinality(M) <= MaxMissing} \cup {F}

\* records lacking top-level keys, with a world_state that is complete or
\* empty, and records lacking world_state keys, complete at the top level or
\* without "history"
RawFiles ==
    {JsonFile(RawRecord((TopFields \ M) \cup E, WorldStateFields \ W)) :
        M \in MissingSets(TopFields), W \in {{}, WorldStateFields},
        E \in SUBSET ExtraFields}
    \cup
    {JsonFile(RawRecord((TopFields \ M) \cup E, WorldStateFields \ W)) :
        M \in {{}, {"history"}}, W \in MissingSets(WorldStateFields),
        E \in SUBSET ExtraFields}
    \cup {AbsentFile, MalformedFile}

\* the full raw dict whose quest_board lacks the keys Q, whose settings lack
\* the keys S and whose ai_session_memory lacks the keys A
NestedRaw(Q, S, A) ==
    [FullRaw EXCEPT
        !.sub.quest_board = QuestBoardFields \ Q,
        !.sub.settings = SettingsFields \ S,
        !.ai_session_memory =
            [k \in SessionMemoryFields |->
                IF k \in A THEN NoneV ELSE FullRaw.ai_session_memory[k]]]

\* records written before quest_board.archive, quest_board.lore,
\* settings.growth_system or ai_session_memory.npc_summaries existed
NestedRawFiles ==
    {JsonFile(NestedRaw({q}, {}, {})) : q \in {"archive", "lore"}}
    \cup {JsonFile(NestedRaw({}, {"growth_system"}, {})),
          JsonFile(NestedRaw({}, {}, {"npc_summaries"}))}

InitMigrate ==
    /\ file \in RawFiles \cup NestedRawFiles
    /\ ret = NoCall
    /\ nmsg = 0
    /\ tasks = NoTasks
    /\ disk = EmptyDisk
    /\ shared = SharedDefaults

NextMigrate ==
    \/ Load
    \/ \E prepared \in BOOLEAN : SetPrepared(prepared, "ok")
    \/ \E uid \in Users : UpdateParticipant(uid, FALSE, "ok")

SpecMigrate == InitMigrate /\ [][NextMigrate]_vars

----------------------------------------------------------------------------
(* Read accessors.  Each calls get_domain, so each raises where it raises. *)

\* get_ai_memory: {} for an unknown id, the default structure for a
\* participant without the key
get_ai_memory(f, uid) ==
    LET p == get_participant_data(f, uid)
    IN  IF ~p.found THEN NoAiMemory
        ELSE IF "ai_memory" \in p.data.keys THEN p.data.ai_memory
        ELSE DefaultAiMemory

get_world_state(f) == get_domain(f).world_state
get_quest_board(f) == get_domain(f).quest_board

\* the backfilled record is written back on every read
get_session_ai_memory_saving(f) ==
    [file |-> save_domain(f, get_domain(f), "ok"),
     mem |-> get_domain(f).ai_session_memory]

\* get_session_ai_memory: the file it leaves and the dict it returns
get_session_ai_memory(f) ==
    [file |-> f, mem |-> get_domain(f).ai_session_memory]

Raised(op) == [op |-> op, raised |-> TRUE]

GetParticipantData(uid) ==
    /\ ret' = IF get_domain_raises(file) THEN Raised("get_participant_data")
              ELSE [op |-> "get_participant_data", raised |-> FALSE,
                    uid |-> uid, found |-> get_participant_data(file, uid).found]
    /\ UNCHANGED <<file, nmsg, tasks, disk, shared>>

GetParticipantStatus(uid) ==
    /\ ret' = IF get_domain_raises(file) THEN Raised("get_participant_status")
              ELSE [op |-> "get_participant_status", raised |-> FALSE,
                    uid |-> uid, status |-> get_participant_status(file, uid)]
    /\ UNCHANGED <<file, nmsg, tasks, disk, shared>>

GetUserMask(uid) ==
    /\ ret' = IF get_domain_raises(file) THEN Raised("get_user_mask")
              ELSE [op |-> "get_user_mask", raised |-> FALSE,
                    uid |-> uid, mask |-> get_user_mask(file, uid)]
    /\ UNCHANGED <<file, nmsg, tasks, disk, shared>>

GetAiMemory(uid) ==
    /\ ret' = IF get_domain_raises(file) THEN Raised("get_ai_memory")
              ELSE [op |-> "get_ai_memory", raised |-> FALSE,
                    uid |-> uid, mem |-> get_ai_memory(file, uid)]
    /\ UNCHANGED <<file, nmsg, tasks, disk, shared>>

GetSessionAiMemory ==
    /\ ret' = IF get_domain_raises(file) THEN Raised("get_session_ai_memory")
              ELSE [op |-> "get_session_ai_memory", raised |-> FALSE,
                    mem |-> get_session_ai_memory(file).mem]
    /\ file' = IF get_domain_raises(file) THEN file
               ELSE get_session_ai_memory(file).file
    /\ UNCHANGED <<nmsg, tasks, disk, shared>>

GetWorldState ==
    /\ ret' = IF get_domain_raises(file) THEN Raised("get_world_state")
              ELSE [op |-> "get_world_state", raised |-> FALSE,
                    ws |-> get_world_state(file)]
    /\ UNCHANGED <<file, nmsg, tasks, disk, shared>>

GetQuestBoard ==
    /\ ret' = IF get_domain_raises(file) THEN Raised("get_quest_board")
              ELSE [op |-> "get_quest_board", raised |-> FALSE,
                    board |-> get_quest_board(file)]
    /\ UNCHANGED <<file, nmsg, tasks, disk, shared>>

----------------------------------------------------------------------------
(* Loading: every content the session file can have *)

AnyFiles ==
    {JsonFile(RawRecord((TopFields \ M) \cup ExtraFields, WorldStateFields)) :
        M \in MissingSets(TopFields)}
    \cup NestedRawFiles
    \cup {AbsentFile, MalformedFile, UnreadableFile, TruncatedFile,
          NullWorldStateFile}
    \cup {NonObjectFile(k) : k \in NonObjectKinds}

InitLoad ==
    /\ file \in AnyFiles
    /\ ret = NoCall
    /\ nmsg = 0
    /\ tasks = NoTasks
    /\ disk = EmptyDisk
    /\ shared = SharedDefaults

NextLoad ==
    \/ Load
    \/ \E uid \in Users : GetParticipantData(uid)
    \/ \E uid \in Users : GetParticipantStatus(uid)
    \/ \E uid \in Users : GetUserMask(uid)
    \/ \E uid \in Users : GetAiMemory(uid)
    \/ GetSessionAiMemory
    \/ GetWorldState
    \/ GetQuestBoard

SpecLoad == InitLoad /\ [][NextLoad]_vars

----------------------------------------------------------------------------
(* Participant memory: every way the store writes ai_memory *)

RegisteredFile == update_participant(AbsentFile, "u1", FALSE, "ok")

AiUpdates ==
    {OneKey(AiMemoryFields, k, v) : k \in {"relationships"}, v \in DictKeyValues}
    \cup {OneKey(AiMemoryFields, k, v) : k \in {"passives"}, v \in ListKeyValues}
    \cup {[k \in AiMemoryFields |->
              CASE k = "relationships" -> v1
                [] k = "passives" -> v2
                [] OTHER -> NoneV] :
          v1 \in {DictV([j \in MapKeys |-> "z"])},
          v2 \in {ListV(<<"q", "p">>), StrV("n")}}

InitMemory ==
    /\ file = RegisteredFile
    /\ ret = NoCall
    /\ nmsg = 0
    /\ tasks = NoTasks
    /\ disk = EmptyDisk
    /\ shared = SharedDefaults

NextMemory ==
    \/ \E updates \in AiUpdates, merge \in BOOLEAN :
          UpdateAiMemory("u1", updates, merge, "ok")
    \/ \E field \in MergeKeys : \E value \in IncomingValues(field) :
          SetAiMemoryField("u1", field, value, "ok")
    \/ \E uid \in Users, list_key \in MergeKeys, item \in Items :
          AddToAiMemoryList(uid, list_key, item, "ok")
    \/ \E uid \in Users, list_key \in MergeKeys, item \in Items :
          RemoveFromAiMemoryList(uid, list_key, item, "ok")

SpecMemory == InitMemory /\ [][NextMemory]_vars

----------------------------------------------------------------------------
(* Merging into a dict-shaped key of the participant and of the session      *)
(* memory                                                                    *)

NextMerge ==
    \/ \E uid \in Users, value \in DictKeyValues, merge \in BOOLEAN :
          UpdateAiMemory(uid, OneKey(AiMemoryFields, "relationships", value),
                         merge, "ok")
    \/ \E value \in DictKeyValues, merge \in BOOLEAN, now \in Times :
          UpdateSessionAiMemory(
              OneKey(SessionMemoryFields, "npc_summaries", value),
              merge, now, "ok")

SpecMerge == InitMemory /\ [][NextMerge]_vars

----------------------------------------------------------------------------
(* Overwriting: merge=False next to merge=True, on list-, dict- and          *)
(* str-shaped keys of both memories, one or two keys per call                *)

ReplaceTimes == {"t1", "t2"}

AiReplaceUpdates ==
    {OneKey(AiMemoryFields, "passives", v) :
        v \in {ListV(<<"p">>), ListV(<<"q", "p">>), StrV("n")}}
    \cup {[k \in AiMemoryFields |->
              CASE k = "relationships" ->
                      DictV([j \in MapKeys |-> IF j = "a" THEN "x" ELSE Absent])
                [] k = "passives" -> ListV(<<"q">>)
                [] OTHER -> NoneV]}

SessionReplaceUpdates ==
    {OneKey(SessionMemoryFields, "active_threads", v) :
        v \in {ListV(<<"p">>), ListV(<<"q", "p">>)}}
    \cup {OneKey(SessionMemoryFields, "last_updated", StrV("n"))}
    \cup {[k \in SessionMemoryFields |->
              CASE k = "npc_summaries" ->
                      DictV([j \in MapKeys |-> IF j = "b" THEN "y" ELSE Absent])
                [] k = "active_threads" -> ListV(<<"q">>)
                [] OTHER -> NoneV]}

NextReplace ==
    \/ \E uid \in Users, updates \in AiReplaceUpdates, merge \in BOOLEAN :
          UpdateAiMemory(uid, updates, merge, "ok")
    \/ \E updates \in SessionReplaceUpdates, merge \in BOOLEAN,
           now \in ReplaceTimes :
          UpdateSessionAiMemory(updates, merge, now, "ok")

SpecReplace == InitMemory /\ [][NextReplace]_vars

----------------------------------------------------------------------------
(* Key events: new events are numbered in the order they first appear *)

KeyEvents(f) == get_domain(f).ai_session_memory["key_events"].l
Min(a, b) == IF a < b THEN a ELSE b
KnownOrNextEvent(f) == 1..Min(Len(KeyEvents(f)) + 1, MaxEvents)
LatestOrNextEvent(f) == {e \in KnownOrNextEvent(f) : e >= Len(KeyEvents(f))}

NextEvents ==
    \/ \E event \in KnownOrNextEvent(file), now \in Times :
          AddKeyEvent(event, now, "ok")
    \/ \E events \in Seqs(LatestOrNextEvent(file), MaxListLen), now \in Times :
          /\ events # <<>>
          /\ UpdateSessionAiMemory(
                 OneKey(SessionMemoryFields, "key_events",
                        ListV([i \in 1..Len(events) |->
                                  EventWithDay(1, events[i])])),
                 TRUE, now, "ok")

SpecEvents == Init /\ [][NextEvents]_vars

----------------------------------------------------------------------------
(* Channels: the store calls of two channels, each on the files its channel  *)
(* id names                                                                  *)

LocationRules == {[k \in MapKeys |-> IF k = "a" THEN "x" ELSE Absent]}

\* a store call on the session file of a channel
OnSessionFile(channel_id, new_file, r) ==
    LET fs == FsWrite(Fs(file, disk), get_session_file_path(channel_id),
                      new_file)
    IN  /\ file' = fs.file
        /\ disk' = fs.disk
        /\ ret' = r
        /\ UNCHANGED <<nmsg, tasks, shared>>

\* a store call on the text files of a channel
OnTextFiles(fs, r) ==
    /\ file' = fs.file
    /\ disk' = fs.disk
    /\ ret' = r
    /\ UNCHANGED <<nmsg, tasks, shared>>

ChannelUpdateParticipant(channel_id, uid) ==
    OnSessionFile(channel_id,
        update_participant(SessionFileOf(Fs(file, disk), channel_id), uid,
                           FALSE, "ok"),
        [op |-> "update_participant", channel |-> channel_id, uid |-> uid])

ChannelSetLocationRules(channel_id, rules) ==
    OnSessionFile(channel_id,
        set_location_rules(SessionFileOf(Fs(file, disk), channel_id), rules,
                           "ok"),
        [op |-> "set_location_rules", channel |-> channel_id])

ChannelAppendLore(channel_id, text) ==
    /\ Len(get_lore(Fs(file, disk), channel_id)) < MaxParagraphs
       \/ get_lore(Fs(file, disk), channel_id) = DEFAULT_LORE
    /\ OnTextFiles(append_lore(Fs(file, disk), channel_id, text),
                   [op |-> "append_lore", channel |-> channel_id])

ChannelAppendRules(channel_id, text) ==
    /\ Len(get_rules(Fs(file, disk), channel_id)) < MaxParagraphs
       \/ get_rules(Fs(file, disk), channel_id) = DEFAULT_RULES
    /\ OnTextFiles(append_rules(Fs(file, disk), channel_id, text),
                   [op |-> "append_rules", channel |-> channel_id])

ChannelSaveLoreSummary(channel_id, text) ==
    OnTextFiles(save_lore_summary(Fs(file, disk), channel_id, text),
                [op |-> "save_lore_summary", channel |-> channel_id])

ChannelResetDomain(channel_id) ==
    OnTextFiles(reset_domain(Fs(file, disk), channel_id),
                [op |-> "reset_domain", channel |-> channel_id,
                 removed |-> {i \in 1..4 :
                                 exists(Fs(file, disk),
                                        ChannelPaths(channel_id)[i])},
                 was |-> LET d == get_domain(SessionFileOf(Fs(file, disk),
                                                           channel_id))
                         IN  [prepared |-> d.prepared,
                              session_locked |-> d.settings.session_locked,
                              participants |-> DOMAIN d.participants,
                              history |-> Len(d.history)]])

NextChannels ==
    \/ \E c \in Channels : ChannelUpdateParticipant(c, "u1")
    \/ \E c \in Channels, rules \in LocationRules :
          ChannelSetLocationRules(c, rules)
    \/ \E c \in Channels, text \in LoreTexts : ChannelAppendLore(c, text)
    \/ \E text \in RulesTexts : ChannelAppendRules(Home, text)
    \/ \E text \in SummaryTexts : ChannelSaveLoreSummary(Home, text)
    \/ \E c \in Channels : ChannelResetDomain(c)

\* a session under way: two participants, prepared, locked, one message
StartedFile == append_history(RunningFile, "User", Message(1), "ok")

InitChannels ==
    /\ file \in {AbsentFile, StartedFile}
    /\ ret = NoCall
    /\ nmsg = 0
    /\ tasks = NoTasks
    /\ disk = EmptyDisk
    /\ shared = SharedDefaults

SpecChannels == InitChannels /\ [][NextChannels]_vars

\* Reset requests, the reactions that answer them and the commands that
\* fill the channel in between.
NextReset ==
    \/ \E t \in Tasks, uid \in Users : ResetRequest(t, uid)
    \/ \E msg \in ReactionTargets, user \in Users, emoji \in Emojis :
          ReactionAdd(msg, user, emoji)
    \/ \E t \in Tasks : ResetTimeout(t)
    \/ \E uid \in Users, target \in MaskTargets : CmdMask(uid, target)
    \/ \E text \in LoreTexts : ChannelAppendLore(Home, text)
    \/ \E text \in RulesTexts : ChannelAppendRules(Home, text)

SpecReset == InitChannels /\ [][NextReset]_vars

----------------------------------------------------------------------------
(* The quest board (src/quest_manager.py).  A quest is its title; a keyword   *)
(* matches the titles that contain it.                                       *)

Quests == {"ab", "b", "c"}

\* inp in q
Contains(inp, q) ==
    \/ inp = "a" /\ q = "ab"
    \/ inp = "b" /\ q \in {"ab", "b"}

\* a piece of re.split(r'[,\s]+', content.strip()): a number, a keyword or
\* the empty string
Digits(n) == [digit |-> TRUE, n |-> n, kw |-> ""]
Word(kw) == [digit |-> FALSE, n |-> 0, kw |-> kw]
QuestTokens == {Digits(1), Digits(2), Word("a"), Word("b"), Word("")}

update_quest_board(f, board, io) ==
    LET d == get_domain(f)
    IN  save_domain(f, [d EXCEPT !.quest_board = board], io)


add_quest(f, content) ==
    LET board == get_quest_board(f)
    IN  IF ~InList(content, board.active)
        THEN update_quest_board(f,
                 [board EXCEPT !.active = Append(@, content)], "ok")
        ELSE f

NoTarget == ""

\* the quest one input names in active_quests, NoTarget if none
ResolveTarget(inp, active_quests) ==
    IF inp.digit
    THEN IF 0 <= inp.n - 1 /\ inp.n - 1 < Len(active_quests)
         THEN active_quests[inp.n] ELSE NoTarget
    ELSE LET hits == {i \in DOMAIN active_quests :
                         Contains(inp.kw, active_quests[i])}
         IN  IF hits = {} THEN NoTarget
             ELSE active_quests[CHOOSE i \in hits : \A j \in hits : i <= j]

\* the loop over inputs that fills targets_to_complete
RECURSIVE ResolveAll(_, _, _)
ResolveAll(inputs, active_quests, targets_to_complete) ==
    IF inputs = <<>> THEN targets_to_complete
    ELSE LET inp == Head(inputs)
             target == ResolveTarget(inp, active_quests)
         IN  IF inp = Word("") \/ target = NoTarget
                \/ InList(target, targets_to_complete)
             THEN ResolveAll(Tail(inputs), active_quests, targets_to_complete)
             ELSE ResolveAll(Tail(inputs), active_quests,
                             Append(targets_to_complete, target))

ChronicleEntry(item) == [title |-> item, content |-> item]

\* the loop over targets_to_complete
RECURSIVE CompleteEach(_, _)
CompleteEach(board, targets) ==
    IF targets = <<>> THEN board
    ELSE LET item == Head(targets)
         IN  IF InList(item, board.active)
             THEN CompleteEach(
                      [board EXCEPT !.active = RemoveFirst(@, item),
                                    !.lore = Append(@, ChronicleEntry(item))],
                      Tail(targets))
             ELSE CompleteEach(board, Tail(targets))

\* each input is resolved against the list as the removals so far left it
RECURSIVE CompleteInTurn(_, _)
CompleteInTurn(board, inputs) ==
    IF inputs = <<>> THEN board
    ELSE CompleteInTurn(
             CompleteEach(board,
                 ResolveAll(<<Head(inputs)>>, board.active, <<>>)),
             Tail(inputs))

complete_quest_in_turn(f, inputs) ==
    LET board == get_quest_board(f)
    IN  IF CompleteInTurn(board, inputs) = board THEN f
        ELSE update_quest_board(f, CompleteInTurn(board, inputs), "ok")

complete_quest(f, inputs) ==
    LET board == get_quest_board(f)
        active_quests == board.active
        targets_to_complete == ResolveAll(inputs, active_quests, <<>>)
    IN  IF active_quests = <<>> THEN f
        ELSE IF targets_to_complete = <<>> THEN f
        ELSE update_quest_board(f, CompleteEach(board, targets_to_complete),
                                "ok")

\* a completion message has arrived and is not handled yet
QuestPending == ret.op = "quest_request"

AddQuest(content) ==
    /\ ~QuestPending
    /\ LET board == get_quest_board(file)
       IN  Len(board.active) + Len(board.lore) < MaxQuests
    /\ file' = add_quest(file, content)
    /\ ret' = [op |-> "add_quest", content |-> content]
    /\ UNCHANGED <<nmsg, tasks, disk, shared>>

\* the message whose pieces complete_quest will split
QuestRequest(inputs) ==
    /\ ~QuestPending
    /\ ret' = [op |-> "quest_request", inputs |-> inputs]
    /\ UNCHANGED <<file, nmsg, tasks, disk, shared>>

CompleteQuest ==
    /\ QuestPending
    /\ file' = complete_quest(file, ret.inputs)
    /\ ret' = [op |-> "complete_quest",
               removed |-> Len(get_quest_board(file).active)
                           - Len(get_quest_board(file').active)]
    /\ UNCHANGED <<nmsg, tasks, disk, shared>>

NextQuests ==
    \/ \E content \in Quests : AddQuest(content)
    \/ \E inputs \in Seqs(QuestTokens, MaxTokens) : QuestRequest(inputs)
    \/ CompleteQuest

SpecQuests == Init /\ [][NextQuests]_vars

----------------------------------------------------------------------------
(* The narrative request (src/persona.py): generate_response_with_retry      *)
(* sends the input up to MAX_RETRY_COUNT times.  The loop state is kept in   *)
(* ret; a text is its length and the attempt that received it.               *)

MAX_RETRY_COUNT == 3
ThinkingLevels == {"minimal", "low", "medium", "high", "other"}
MIN_RESPONSE_LENGTH ==
    [minimal |-> 300, low |-> 500, medium |-> 800, high |-> 1200]

get_length_requirements(thinking_level) ==
    IF thinking_level \in DOMAIN MIN_RESPONSE_LENGTH
    THEN MIN_RESPONSE_LENGTH[thinking_level] ELSE 500

NoText == [kind |-> "none", attempt |-> 0, len |-> 0]
SystemWarning == [kind |-> "warning", attempt |-> 0, len |-> 36]
ResponseText(attempt, len) ==
    [kind |-> "response", attempt |-> attempt, len |-> len]

\* what one send_message call comes to: it raises, it returns no text, or it
\* returns a text of some length
SendOutcomes(min_length) ==
    {[kind |-> "raise", len |-> 0], [kind |-> "empty", len |-> 0]}
    \cup {[kind |-> "text", len |-> n] :
             n \in {1, min_length - 1, min_length, min_length + 1}}

\* the latest short response is kept
keep_best_latest(best, text) == text

\* if response_length > best_length: best_response = response_text
keep_best(best, text) == IF text.len > best.len THEN text ELSE best

RetryStart(thinking_level) ==
    [op |-> "generate_response_with_retry", thinking_level |-> thinking_level,
     min_length |-> get_length_requirements(thinking_level),
     sends |-> <<>>, best_response |-> NoText, done |-> FALSE,
     result |-> NoText]

\* one pass of the for loop
retry_attempt(st, outcome) ==
    LET attempt == Len(st.sends) + 1
        text == ResponseText(attempt, outcome.len)
        st1 == [st EXCEPT !.sends = Append(@, outcome)]
    IN  IF outcome.kind = "text" /\ outcome.len > 0
        THEN IF outcome.len >= st.min_length
             THEN [st1 EXCEPT !.done = TRUE, !.result = text]
             ELSE [st1 EXCEPT !.best_response = keep_best(@, text)]
        ELSE st1

\* after the loop
retry_fallback(st) ==
    [st EXCEPT !.done = TRUE,
               !.result = IF st.best_response # NoText THEN st.best_response
                          ELSE SystemWarning]

RetryAttempt(outcome) ==
    /\ ret.op = "generate_response_with_retry"
    /\ ~ret.done
    /\ Len(ret.sends) < MAX_RETRY_COUNT
    /\ outcome \in SendOutcomes(ret.min_length)
    /\ ret' = retry_attempt(ret, outcome)
    /\ UNCHANGED <<file, nmsg, tasks, disk, shared>>

RetryFallback ==
    /\ ret.op = "generate_response_with_retry"
    /\ ~ret.done
    /\ Len(ret.sends) = MAX_RETRY_COUNT
    /\ ret' = retry_fallback(ret)
    /\ UNCHANGED <<file, nmsg, tasks, disk, shared>>

InitRetry ==
    /\ file = AbsentFile
    /\ ret \in {RetryStart(level) : level \in ThinkingLevels}
    /\ nmsg = 0
    /\ tasks = NoTasks
    /\ disk = EmptyDisk
    /\ shared = SharedDefaults

NextRetry ==
    \/ \E outcome \in UNION {SendOutcomes(get_length_requirements(level)) :
                                level \in ThinkingLevels} :
          RetryAttempt(outcome)
    \/ RetryFallback

\* the coroutine is resumed after each await
SpecRetry == InitRetry /\ [][NextRetry]_vars /\ WF_vars(NextRetry)

-----------------------------------------------------------------------------
(* Experience (src/simulation_manager.py): gain_experience is followed pass  *)
(* by pass: ret holds the record the loop of _calc_standard_growth works on. *)

XpAmounts == {0 - 50, 0, 60, 100, 300}       \* int(args[1]) of the xp cheat
GrowthSystems == {"standard", "custom"}   \* what the system command stores

set_growth_system(f, mode, io) ==
    LET d == get_domain(f)
    IN  save_domain(f, [d EXCEPT !.settings.growth_system = mode], io)

\* `if "level" not in user_data` and the two defaults after it
gain_defaults(user_data) ==
    [user_data EXCEPT
        !.keys = @ \cup {"level", "next_xp"},
        !.level = PGet(user_data, "level", 1),
        !.next_xp = PGet(user_data, "next_xp", 100)]

\* int(next_xp * STANDARD_GROWTH_MULTIPLIER): the product is cut towards zero
grown_threshold(next_xp) ==
    IF next_xp >= 0 THEN (next_xp * 12) \div 10
    ELSE 0 - (((0 - next_xp) * 12) \div 10)

\* the threshold stays as it is
standard_growth_pass_same_threshold(user_data) ==
    [user_data EXCEPT !.xp = @ - user_data.next_xp,
                      !.level = @ + 1]

\* one pass of the while loop of _calc_standard_growth
standard_growth_pass(user_data) ==
    [user_data EXCEPT !.xp = @ - user_data.next_xp,
                      !.level = @ + 1,
                      !.next_xp = grown_threshold(@)]

GainRunning == ret.op = "gain_experience" /\ ret.pc = "loop"

\* the system command with a growth type
CmdSystem(uid, mode) ==
    /\ ~GainRunning
    /\ CommandAdmitted(file, uid, "system")
    /\ file' = set_growth_system(file, mode, "ok")
    /\ ret' = [op |-> "cmd_system", uid |-> uid, mode |-> mode]
    /\ UNCHANGED <<nmsg, tasks, disk, shared>>

\* the xp cheat up to the loop: the record is loaded, the defaults are set
\* and the amount is added; the custom system returns here and is saved
CheatXp(uid, amount) ==
    /\ ~GainRunning
    /\ nmsg < MaxAwards
    /\ CommandAdmitted(file, uid, "cheat")
    /\ get_participant_data(file, uid).found
    /\ LET p_data == get_participant_data(file, uid).data
           before == gain_defaults(p_data)
           user_data == [before EXCEPT !.xp = @ + amount]
           system_type == get_growth_system(file)
       IN  /\ ret' = [op |-> "gain_experience",
                      pc |-> IF system_type = "custom" THEN "done"
                             ELSE "loop",
                      uid |-> uid, amount |-> amount,
                      system_type |-> system_type,
                      before |-> before, user_data |-> user_data]
           /\ file' = IF system_type = "custom"
                      THEN save_participant_data(file, uid, user_data, "ok")
                      ELSE file
    /\ nmsg' = nmsg + 1
    /\ UNCHANGED <<tasks, disk, shared>>

\* the loop condition and one pass, or the return and the save that follows
GainPass ==
    /\ GainRunning
    /\ IF ret.user_data.xp >= ret.user_data.next_xp
       THEN /\ ret' = [ret EXCEPT
                          !.user_data = standard_growth_pass(@)]
            /\ file' = file
       ELSE /\ ret' = [ret EXCEPT !.pc = "done"]
            /\ file' = save_participant_data(file, ret.uid, ret.user_data,
                                             "ok")
    /\ UNCHANGED <<nmsg, tasks, disk, shared>>

InitGrowth ==
    /\ file = RunningFile
    /\ ret = NoCall
    /\ nmsg = 0
    /\ tasks = NoTasks
    /\ disk = EmptyDisk
    /\ shared = SharedDefaults

NextGrowth ==
    \/ \E amount \in XpAmounts : CheatXp("u1", amount)
    \/ GainPass
    \/ \E mode \in GrowthSystems : CmdSystem("u1", mode)

\* the handler runs to its end once it has started
SpecGrowth == InitGrowth /\ [][NextGrowth]_vars /\ WF_vars(GainPass)

----------------------------------------------------------------------------
(* Properties *)

Participants(f) == get_domain(f).participants
Known(f, uid) == uid \in DOMAIN Participants(f)
MemoryOf(f, uid) == AiMemoryOf(Participants(f)[uid])
SessionMemory(f) == get_domain(f).ai_session_memory

NoDuplicates(lst) ==
    \A i, j \in 1..Len(lst) : lst[i] = lst[j] => i = j

\* C1: the record get_domain returns for a persisted record (or for no file)
\* holds every top-level key of the default session and every key of
\* DEFAULT_WORLD_STATE inside world_state.
C1_LoadedRecordIsComplete ==
    ret.op = "get_domain" =>
        /\ TopFields \subseteq ret.data.keys
        /\ WorldStateFields \subseteq ret.data.sub.world_state

C1_Witness ==
    /\ ret.op = "get_domain"
    /\ file.kind = "json"
    /\ "world_state" \in file.rec.keys
    /\ ~(WorldStateFields \subseteq file.rec.sub.world_state)
    /\ ~(TopFields \subseteq file.rec.keys)

\* C2: after an append_history call the persisted history has at most
\* MAX_HISTORY_LENGTH entries, and they are the most recently created
\* messages, in the order they were created.
C2_HistoryKeepsTheMostRecent ==
    ret.op = "append_history" =>
        LET h == file.rec.history
            k == IF nmsg < MAX_HISTORY_LENGTH THEN nmsg ELSE MAX_HISTORY_LENGTH
        IN  /\ Len(h) <= MAX_HISTORY_LENGTH
            /\ Len(h) = k
            /\ \A i \in 1..k : h[i].content.id = nmsg - k + i

C2_Witness ==
    /\ ret.op = "append_history"
    /\ nmsg = MAX_HISTORY_LENGTH + 5
    /\ Len(file.rec.history) = MAX_HISTORY_LENGTH
    /\ file.rec.history[1].content.id = 6

\* C3: after a save_domain call, failed or not, a load decodes the complete
\* previous record or the complete new record.
C3_SaveNeverHalfWritten ==
    [][ret'.op \in {"set_prepared", "set_session_lock", "update_participant"}
       => get_domain(file') \in {get_domain(file),
                                 get_domain(JsonFile(ret'.saved))}]_vars

\* C4: while session_locked is true, update_participant for an unknown user
\* id does not return success and leaves participants unchanged.
C4_LockedRegistrationRefused ==
    [][(/\ ret'.op = "update_participant"
        /\ is_locked(file)
        /\ ~Known(file, ret'.uid))
       => /\ ret'.val # TRUE
          /\ Participants(file') = Participants(file)]_vars

\* C5: registering a participant whose status is left, by the mask command,
\* the back command or a chat message, leaves a fresh record: status active
\* and ai_memory at its defaults.
C5_LeftParticipantIsReborn ==
    [][(/\ ret'.op \in {"cmd_mask", "cmd_back", "chat_manual"}
        /\ Known(file, ret'.uid)
        /\ Participants(file)[ret'.uid].status = "left")
       => /\ Participants(file')[ret'.uid].status = "active"
          /\ "ai_memory" \in Participants(file')[ret'.uid].keys
          /\ Participants(file')[ret'.uid].ai_memory = DefaultAiMemory]_vars

\* C6: the first registration of an unknown user id creates a participant
\* with status active, the display name as mask, and core_stats.level = 1.
C6_FirstRegistrationHasCoreStats ==
    [][(/\ ret'.op = "update_participant"
        /\ ~Known(file, ret'.uid))
       => LET p == Participants(file')[ret'.uid]
          IN  /\ p.status = "active"
              /\ p.mask = DisplayNameOf[ret'.uid]
              /\ "core_stats" \in p.keys
              /\ p.core_stats.level = 1]_vars

\* the entries of incoming that existing lacks, each once, in incoming order
FirstMissing(existing, incoming) ==
    LET idx == {i \in 1..Len(incoming) :
                   /\ ~InList(incoming[i], existing)
                   /\ \A j \in 1..(i - 1) : incoming[j] # incoming[i]}
        nth(n) == CHOOSE i \in idx : Cardinality({j \in idx : j <= i}) = n
    IN  [n \in 1..Cardinality(idx) |-> incoming[nth(n)]]

\* C7: update_ai_memory with merge=True on a list field keeps the existing
\* entries, duplicates included, and appends the incoming entries that were
\* not present, once each, in incoming order; the same merge made a second
\* time changes nothing.
C7_ListMergeAppendsMissingOnce ==
    [][(/\ ret'.op = "update_ai_memory"
        /\ ret'.merge
        /\ Known(file, ret'.uid))
       => \A k \in AiMemoryFields :
            (/\ isinstance(ret'.updates[k], "list")
             /\ isinstance(MemoryOf(file, ret'.uid)[k], "list"))
            => /\ MemoryOf(file', ret'.uid)[k].l =
                     MemoryOf(file, ret'.uid)[k].l
                     \o FirstMissing(MemoryOf(file, ret'.uid)[k].l,
                                     ret'.updates[k].l)
               /\ ret' = ret =>
                     MemoryOf(file', ret'.uid)[k] = MemoryOf(file, ret'.uid)[k]
      ]_vars

C7_Witness ==
    /\ ret.op = "update_ai_memory"
    /\ ret.merge
    /\ Known(file, ret.uid)
    /\ ret.updates["passives"] = ListV(<<"p", "q">>)
    /\ MemoryOf(file, ret.uid)["passives"] = ListV(<<"p", "p", "q">>)

\* C8 as stated: no list field of a participant's ai_memory ever holds the
\* same entry twice.
C8_NoListFieldHasDuplicates ==
    \A uid \in DOMAIN Participants(file) : \A k \in ListKeys :
        isinstance(MemoryOf(file, uid)[k], "list")
            => NoDuplicates(MemoryOf(file, uid)[k].l)

\* C8 amended: update_ai_memory with merge=True, add_to_ai_memory_list and
\* remove_from_ai_memory_list leave a list field that is a list without
\* duplicates without duplicates.
C8_MergingCallsAddNoDuplicate ==
    [][(/\ \/ ret'.op = "update_ai_memory" /\ ret'.merge
           \/ ret'.op \in {"add_to_ai_memory_list",
                           "remove_from_ai_memory_list"}
        /\ Known(file, ret'.uid))
       => \A k \in ListKeys :
            (/\ isinstance(MemoryOf(file, ret'.uid)[k], "list")
             /\ NoDuplicates(MemoryOf(file, ret'.uid)[k].l)
             /\ isinstance(MemoryOf(file', ret'.uid)[k], "list"))
            => NoDuplicates(MemoryOf(file', ret'.uid)[k].l)]_vars

C8_Witness ==
    /\ ret.op = "update_ai_memory"
    /\ ret.merge
    /\ Known(file, ret.uid)
    /\ ret.updates["passives"] = ListV(<<"q", "q">>)
    /\ MemoryOf(file, ret.uid)["passives"] = ListV(<<"p", "q">>)

\* C9: no list field of the session memory holds more than 20 entries.
C9_SessionListsAreCapped ==
    \A k \in SessionMemoryFields :
        isinstance(SessionMemory(file)[k], "list")
            => Len(SessionMemory(file)[k].l) <= SessionListCap

DictKeysOf(m) == {j \in MapKeys : m[j] # Absent}

\* what merge=True leaves at one key, given what was there and what came in
MergedAsClaimed(old, inc, new) ==
    /\ (isinstance(old, "dict") /\ isinstance(inc, "dict"))
       => /\ isinstance(new, "dict")
          /\ DictKeysOf(new.m) = DictKeysOf(old.m) \cup DictKeysOf(inc.m)
          /\ \A j \in DictKeysOf(inc.m) : new.m[j] = inc.m[j]
          /\ \A j \in DictKeysOf(old.m) \ DictKeysOf(inc.m) :
                new.m[j] = old.m[j]
    /\ (old.t # inc.t \/ inc.t \notin {"dict", "list"}) => new = inc

\* C10: with merge=True, update_ai_memory and update_session_ai_memory merge
\* a dict into a dict key-wise (incoming keys overwrite, the other keys keep
\* their values) and replace the existing value by the incoming one when the
\* shapes are not both list or both dict.
C10_DictMergeIsKeyWise ==
    [][/\ (/\ ret'.op = "update_ai_memory"
           /\ ret'.merge
           /\ Known(file, ret'.uid))
          => \A k \in AiMemoryFields :
                ret'.updates[k] # NoneV
                => MergedAsClaimed(MemoryOf(file, ret'.uid)[k],
                                   ret'.updates[k],
                                   MemoryOf(file', ret'.uid)[k])
       /\ (ret'.op = "update_session_ai_memory" /\ ret'.merge)
          => \A k \in SessionMemoryFields \ {"last_updated"} :
                ret'.updates[k] # NoneV
                => MergedAsClaimed(SessionMemory(file)[k], ret'.updates[k],
                                   SessionMemory(file')[k])
      ]_vars

C10_Witness ==
    /\ ret.op = "update_ai_memory"
    /\ ret.merge
    /\ Known(file, ret.uid)
    /\ ret.updates["relationships"] =
          DictV([k \in MapKeys |-> IF k = "a" THEN "x" ELSE Absent])
    /\ MemoryOf(file, ret.uid)["relationships"] =
          DictV([k \in MapKeys |-> IF k = "a" THEN "x" ELSE "z"])

\* what merge=False leaves at the key k: the incoming value when the update
\* names k, the value it held otherwise
ReplacedAt(old, updates, new, k) ==
    new[k] = IF updates[k] # NoneV THEN updates[k] ELSE old[k]

\* C11 as stated: with merge=False, update_ai_memory and
\* update_session_ai_memory replace every field the update names by the
\* incoming value and leave every other field unchanged.
C11_ReplaceTouchesNamedFieldsOnly ==
    [][/\ (/\ ret'.op = "update_ai_memory"
           /\ ~ret'.merge
           /\ Known(file, ret'.uid))
          => \A k \in AiMemoryFields :
                ReplacedAt(MemoryOf(file, ret'.uid), ret'.updates,
                           MemoryOf(file', ret'.uid), k)
       /\ (ret'.op = "update_session_ai_memory" /\ ~ret'.merge)
          => \A k \in SessionMemoryFields :
                ReplacedAt(SessionMemory(file), ret'.updates,
                           SessionMemory(file'), k)
      ]_vars

\* C11 amended: as C11, except that update_session_ai_memory sets
\* last_updated to the time of the call, whether the update names it or not.
C11_ReplaceIsVerbatimButTimestamp ==
    [][/\ (/\ ret'.op = "update_ai_memory"
           /\ ~ret'.merge
           /\ Known(file, ret'.uid))
          => \A k \in AiMemoryFields :
                ReplacedAt(MemoryOf(file, ret'.uid), ret'.updates,
                           MemoryOf(file', ret'.uid), k)
       /\ (ret'.op = "update_session_ai_memory" /\ ~ret'.merge)
          => /\ \A k \in SessionMemoryFields \ {"last_updated"} :
                   ReplacedAt(SessionMemory(file), ret'.updates,
                              SessionMemory(file'), k)
             /\ SessionMemory(file')["last_updated"] = StrV(ret'.now)
      ]_vars

C11_Witness ==
    /\ ret.op = "update_session_ai_memory"
    /\ ~ret.merge
    /\ ret.now = "t2"
    /\ ret.updates = OneKey(SessionMemoryFields, "active_threads",
                            ListV(<<"p">>))
    /\ SessionMemory(file)["active_threads"] = ListV(<<"p">>)
    /\ SessionMemory(file)["npc_summaries"] =
          DictV([j \in MapKeys |-> IF j = "b" THEN "y" ELSE Absent])
    /\ SessionMemory(file)["last_updated"] = StrV("t2")
    /\ MemoryOf(file, "u1")["passives"] = ListV(<<"q", "p">>)

\* the backfill of get_domain applied to an already decoded record
Backfill(data) == BackfillWorldState(BackfillTop(data, _get_default_session))

\* C12: the backfill applied to a record get_domain returned changes nothing,
\* and a load, a save of what was loaded (set_prepared with the value the
\* record holds) and a second load give the record of the first load.
C12_MigrationIsIdempotent ==
    [][/\ ret'.op = "get_domain" => Backfill(ret'.data) = ret'.data
       /\ (/\ ret'.op = "set_prepared"
           /\ ret'.prepared = get_domain(file).prepared)
          => /\ ret'.saved = get_domain(file)
             /\ get_domain(file') = get_domain(file)
             /\ Backfill(get_domain(file')) = get_domain(file')
      ]_vars

C12_Witness ==
    /\ ret.op = "get_domain"
    /\ file.kind = "json"
    /\ "world_state" \in file.rec.keys
    /\ file.rec.sub.world_state = {}
    /\ "future_field" \in file.rec.keys
    /\ ret.data # file.rec
    /\ ret.data = Backfill(file.rec)

\* every key the persisted record raw holds is in loaded with raw's value;
\* inside world_state, every key raw's world_state holds
PersistedKept(raw, loaded) ==
    /\ raw.keys \subseteq loaded.keys
    /\ \A k \in raw.keys \ {"world_state"} : loaded[k] = raw[k]
    /\ \A n \in {"quest_board", "settings"} \cap raw.keys :
          loaded.sub[n] = raw.sub[n]
    /\ "world_state" \in raw.keys
          => /\ raw.sub.world_state \subseteq loaded.sub.world_state
             /\ \A w \in raw.sub.world_state :
                   loaded.world_state[w] = raw.world_state[w]

\* C13: get_domain returns every persisted field, top level or inside
\* world_state, with its persisted value, and a key the schema does not know
\* is still in the record, with its value, after the load and after the save
\* of a mutator that follows.
C13_MigrationOnlyAdds ==
    [][/\ (ret'.op = "get_domain" /\ file.kind = "json")
          => PersistedKept(file.rec, ret'.data)
       /\ (/\ ret'.op \in {"set_prepared", "update_participant"}
           /\ file.kind = "json")
          => /\ file'.kind = "json"
             /\ \A e \in ExtraFields \cap file.rec.keys :
                   /\ e \in file'.rec.keys
                   /\ file'.rec[e] = file.rec[e]
             /\ \A k \in file.rec.keys \ {"prepared", "participants",
                                            "world_state"} :
                   file'.rec[k] = file.rec[k]
      ]_vars

C13_Witness ==
    /\ ret.op = "set_prepared"
    /\ ~ret.prepared
    /\ file.kind = "json"
    /\ "future_field" \in file.rec.keys
    /\ file.rec.future_field = "v2"
    /\ file.rec.custom_tone = "grim"
    /\ file.rec.world_state.weather = "rain"
    /\ file.rec.world_state.doom = DEFAULT_WORLD_STATE.doom

\* C14: the record get_domain returns holds every schema key of quest_board,
\* of settings and of ai_session_memory, as it does for world_state.
C14_NestedStructuresAreBackfilled ==
    ret.op = "get_domain" =>
        /\ QuestBoardFields \subseteq ret.data.sub.quest_board
        /\ SettingsFields \subseteq ret.data.sub.settings
        /\ \A k \in SessionMemoryFields : ret.data.ai_session_memory[k] # NoneV

\* C15: get_domain returns, without raising, a record holding every
\* top-level key and every world_state key, whatever the session file holds;
\* when the file cannot be read or decoded the record is the default session.
C15_LoadNeverFails ==
    ret.op = "get_domain" =>
        /\ ~ret.raised
        /\ TopFields \subseteq ret.data.keys
        /\ WorldStateFields \subseteq ret.data.sub.world_state
        /\ file.kind \in {"unreadable", "malformed", "truncated"}
              => ret.data = _get_default_session

ReadOps == {"get_domain", "get_participant_data", "get_participant_status",
            "get_user_mask", "get_ai_memory", "get_session_ai_memory",
            "get_world_state", "get_quest_board"}

\* C16: get_domain and the read accessors leave the session file as it was:
\* an absent file stays absent, and a file that exists keeps its content,
\* also when the content cannot be decoded.
C16_ReadsLeaveStoreUnchanged ==
    [][ret'.op \in ReadOps => file' = file]_vars

C16_Witness ==
    /\ ret.op = "get_session_ai_memory"
    /\ ~ret.raised
    /\ ret.mem = DefaultSessionMemory
    /\ file = AbsentFile

\* C17: update_participant, update_ai_memory and update_session_ai_memory do
\* not return success for a call whose save_domain failed.
C17_SaveFailureIsSurfaced ==
    (/\ ret.op \in {"update_participant", "update_ai_memory",
                    "update_session_ai_memory"}
     /\ ret.io # "ok")
    => ret.val = FALSE

MutatorOps == {"update_participant", "set_participant_status",
               "set_user_mask", "set_session_lock", "set_prepared",
               "append_history", "update_ai_memory", "update_relationship",
               "update_session_ai_memory", "add_key_event"}

\* C18: a call of a derived mutator makes exactly one get_domain call and
\* exactly one save_domain call, for every input.
C18_OneLoadOneSavePerCall ==
    ret.op \in MutatorOps => ret.calls = Calls(1, 1)

\* C19: the participant data a handler saves after awaiting the language
\* model is the data the store holds for that participant at the save: no
\* other store operation ran between the handler's load and its save.
C19_CommitDoesNotSpanSuspension ==
    [][ret'.op = "chat_auto_commit"
       => ret'.loaded = Participants(file)[ret'.uid]]_vars

\* a registration of a known id without reset: update_participant or the
\* back command
IsReRegistration(f, r) ==
    /\ r.op \in {"update_participant", "cmd_back"}
    /\ r.op = "update_participant" => ~r.reset
    /\ Known(f, r.uid)
    /\ Participants(f)[r.uid].status \in {"active", "away", "afk"}

\* the code-owned part of the participant is kept and its status is active
ReRegistered(p, q) ==
    /\ q.status = "active"
    /\ q.inventory = p.inventory
    /\ q.status_effects = p.status_effects
    /\ q.mask = p.mask

StatusOf(f, uid) == Participants(f)[uid].status

\* the commands and messages that register their author (update_participant)
RegistrationOps == {"update_participant", "cmd_back", "cmd_mask",
                    "chat_manual", "chat_auto_begin"}

\* the call r moves uid to the status new as the lifecycle says
LifecycleStep(r, uid, new) ==
    \/ r.op \in RegistrationOps /\ r.uid = uid /\ new = "active"
    \/ r.op = "cmd_afk" /\ r.uid = uid /\ new = "afk"
    \/ r.op = "cmd_leave" /\ r.uid = uid /\ new = "left"

\* C21: the status of every participant is one of active, away, afk, left,
\* and the status of a participant changes only in a registration or back
\* (to active), in afk (to afk) or in leave (to left), of that participant.
C21_StatusFollowsLifecycle ==
    [][\A uid \in Users :
          Known(file', uid) =>
             /\ StatusOf(file', uid) \in Statuses
             /\ (Known(file, uid) /\ StatusOf(file', uid) # StatusOf(file, uid))
                => LifecycleStep(ret', uid, StatusOf(file', uid))]_vars

\* C22: a user id becomes a key of participants only in a registration of
\* that id (update_participant); no other mutator and no handler's
\* save_participant_data creates the entry of an id the record does not hold.
C22_OnlyRegistrationCreates ==
    [][\A uid \in Users :
          (~Known(file, uid) /\ Known(file', uid))
          => (ret'.op \in RegistrationOps /\ ret'.uid = uid)]_vars

\* C23: set_participant_status(uid, "left") changes the status of that
\* participant and nothing else of any participant, and no store call other
\* than a reset takes a user id out of participants.
C23_LeavingKeepsTheParticipant ==
    [][/\ DOMAIN Participants(file) \subseteq DOMAIN Participants(file')
       /\ (ret'.op = "set_participant_status" /\ ret'.status = "left")
          => /\ DOMAIN Participants(file') = DOMAIN Participants(file)
             /\ \A u \in DOMAIN Participants(file) :
                   Participants(file')[u] =
                      IF u = ret'.uid
                      THEN [Participants(file)[u] EXCEPT !.status = "left"]
                      ELSE Participants(file)[u]]_vars

C23_Witness ==
    /\ ret.op = "set_participant_status"
    /\ ret.status = "left"
    /\ ret.reason = "gone"
    /\ ret.uid = "u1"
    /\ Known(file, "u1") /\ Known(file, "u2")
    /\ StatusOf(file, "u1") = "left"
    /\ Participants(file)["u1"].mask = "Mask"
    /\ MemoryOf(file, "u1")["relationships"] =
          DictV([k \in MapKeys |-> IF k = "a" THEN "x" ELSE Absent])
    /\ StatusOf(file, "u2") = "afk"

Untouched(c) ==
    /\ \A i \in 1..4 :
          FsRead(Fs(file', disk'), ChannelPaths(c)[i]) =
             FsRead(Fs(file, disk), ChannelPaths(c)[i])
    /\ get_domain_sharing(SessionFileOf(Fs(file', disk'), c), shared') =
          get_domain_sharing(SessionFileOf(Fs(file, disk), c), shared)

\* C27: a store call on one channel leaves the session file, the lore, the
\* rules and the lore summary of every other channel as they were, and the
\* record get_domain returns for the other channel, built from the shared
\* defaults where its file lacks keys, is the same as before.
C27_ChannelsAreIsolated ==
    [][\A c \in Channels \ {ret'.channel} : Untouched(c)]_vars

C27_Witness ==
    /\ ret.op = "set_location_rules"
    /\ ret.channel = "20"
    /\ get_domain(SessionFileOf(Fs(file, disk), "20")).world_state.location_rules
          # EmptyMap
    /\ file = StartedFile
    /\ get_domain_sharing(file, shared).world_state.location_rules = EmptyMap
    /\ get_lore(Fs(file, disk), Home) = <<"L">>
    /\ get_rules(Fs(file, disk), Home) = <<"R">>
    /\ get_lore(Fs(file, disk), "20") = DEFAULT_LORE
    /\ exists(Fs(file, disk), get_lore_summary_file_path(Home))

\* C25: in every state the chat commands reach, a locked session is a
\* prepared one; start and lock change the session file only when the
\* session was prepared, a start on an unprepared session changes nothing
\* and reports failure, and unlock leaves the session unlocked and prepared.
C25_LockedImpliesPrepared ==
    /\ [](is_locked(file) => is_prepared(file))
    /\ [][/\ (ret'.op \in {"cmd_start", "cmd_lock"} /\ file' # file)
               => is_prepared(file)
          /\ (ret'.op = "cmd_start" /\ ~is_prepared(file))
               => (file' = file /\ ~ret'.admitted)
          /\ (ret'.op = "cmd_unlock" /\ ret'.admitted)
               => (~is_locked(file') /\ is_prepared(file'))]_vars

\* unlock has acted on a locked session
C25_Witness ==
    /\ ret.op = "cmd_unlock"
    /\ ret.admitted
    /\ is_prepared(file)
    /\ ~is_locked(file)

\* C26: a ready command that is carried out leaves prepared true exactly
\* when the lore text and the rules text obtained for the channel are both
\* non-empty, and prepared becomes true in no other way.
C26_ReadySetsPreparedFromTexts ==
    [][/\ (ret'.op = "cmd_ready" /\ ret'.admitted)
            => (is_prepared(file') = (ret'.lore # <<>> /\ ret'.rules # <<>>))
       /\ (~is_prepared(file) /\ is_prepared(file'))
            => ret'.op = "cmd_ready"]_vars

\* C28: set_participant_status with status "left" and a non-empty reason on
\* a known participant leaves the participant's status "left" and the
\* departure System entry as the last entry of the stored history.
C28_DepartureIsRecorded ==
    [][(/\ ret'.op = "set_participant_status"
        /\ ret'.status = "left"
        /\ ret'.reason # ""
        /\ ret'.io = "ok"
        /\ Known(file, ret'.uid))
       => LET history == get_domain(file').history
          IN  /\ Participants(file')[ret'.uid].status = "left"
              /\ history # <<>>
              /\ history[Len(history)] =
                     HistoryEntry("System",
                         DepartureMessage(Participants(file)[ret'.uid].mask,
                                          ret'.reason))]_vars

\* C29: when the AI's response carries an XP award as system action, the
\* experience and level the award gave the author are those the session
\* file holds for the author when the handling of the message completes.
C29_AwardSurvivesTheHandler ==
    [][(ret'.op = "chat_auto_commit" /\ ret'.award > 0 /\ ret'.awarded.found)
       => /\ Known(file', ret'.uid)
          /\ Participants(file')[ret'.uid].xp = ret'.awarded.data.xp
          /\ Participants(file')[ret'.uid].level = ret'.awarded.data.level]_vars

\* C30: what a command committed to the author's participant entry while
\* the AI path of a message of the author was suspended is still in the
\* entry after the handler commits: the commit leaves the status and the
\* mask of the entry as they were stored just before it.
C30_CommitKeepsConcurrentChanges ==
    [][(ret'.op = "chat_auto_commit" /\ Known(file, ret'.uid))
       => /\ Known(file', ret'.uid)
          /\ Participants(file')[ret'.uid].status =
                 Participants(file)[ret'.uid].status
          /\ Participants(file')[ret'.uid].mask =
                 Participants(file)[ret'.uid].mask]_vars

\* C31: once a confirmed reset has completed, what a handler that was
\* suspended during the reset commits afterwards brings back no participant
\* record and no history entry from before the reset: on the fresh channel
\* its commit leaves no participant, and its history entries are those of
\* the message it finishes.
C31_NothingFromBeforeTheReset ==
    [][(/\ file.kind = "absent"
        /\ ret'.op \in {"chat_auto_commit", "chat_auto_finish"})
       => LET history == get_domain(file').history
          IN  /\ Participants(file') = NoParticipants
              /\ \A i \in DOMAIN history : history[i].content.id > nmsg]_vars

\* C32: the session file of a channel that held undecodable bytes still
\* holds them after any sequence of store calls other than a reset.
C32_MalformedBytesRemain == file = MalformedFile

\* C33: a file of the channel is deleted only by the step in which the
\* author of a pending reset request adds the confirmation reaction to its
\* confirmation message; a wait that times out, and a reaction that does
\* not pass the check or comes after the wait, leave every file as it was.
C33_ResetNeedsTheAuthorsConfirmation ==
    [][/\ (\E i \in 1..4 :
              /\ exists(Fs(file, disk), ChannelPaths(Home)[i])
              /\ ~exists(Fs(file', disk'), ChannelPaths(Home)[i]))
          => /\ ret'.op = "reset_confirmed"
             /\ tasks[ret'.task].pc = "confirm"
             /\ ret'.user = tasks[ret'.task].uid
             /\ ret'.emoji = ConfirmEmoji
       /\ ret'.op \in {"reset_timeout", "reaction_ignored"}
          => (file' = file /\ disk' = disk)]_vars

\* a request has timed out on a channel that has a session file
C33_Witness ==
    /\ ret.op = "reset_timeout"
    /\ exists(Fs(file, disk), HomePath)
    /\ Participants(file) # NoParticipants

\* C34: a step that leaves a Char entry at the end of the history is the end
\* of a handled message and has appended the User entry of that message
\* directly before it; and in every history a Char entry that has a
\* predecessor follows the User entry of its own message, however the
\* handlers of two messages interleave.
C34_CharFollowsItsUser ==
    [][LET old == get_domain(file).history
           history == get_domain(file').history
           n == Len(history)
       IN  /\ (history # old /\ n > 0 /\ history[n].role = "Char")
              => /\ ret'.op = "chat_auto_finish"
                 /\ n >= 2
                 /\ history[n] = HistoryEntry("Char", Message(nmsg + 2))
                 /\ history[n - 1] =
                       HistoryEntry("User",
                           ChatMessage(nmsg + 1, tasks[ret'.task].mask))
                 /\ SubSeq(history, 1, n - 2) = old
           /\ \A i \in 2..n :
                 history[i].role = "Char"
                 => /\ history[i - 1].role = "User"
                    /\ history[i - 1].content.id + 1 = history[i].content.id]_vars

\* a message has been answered while the handler of another one is suspended
C34_Witness ==
    /\ ret.op = "chat_auto_finish"
    /\ ret.responded
    /\ \E t \in Tasks : tasks[t].pc # "idle"
    /\ Len(get_domain(file).history) >= 2

\* C35: in manual response mode, on a channel that is not switched off, a
\* chat message of a participant appends exactly one User entry, and starts no AI generation, when the session is
\* locked, and appends nothing when the session is not locked.
C35_ManualChatIsOnlyRecorded ==
    [][(/\ ret'.op \in {"chat_manual", "chat_dropped"}
        /\ get_response_mode(file) = "manual"
        /\ is_participant(file, ret'.uid)
        /\ ~is_bot_disabled(file))
       => LET old == get_domain(file).history
              history == get_domain(file').history
          IN  IF is_locked(file)
              THEN /\ history =
                        Append(old,
                            HistoryEntry("User",
                                ChatMessage(nmsg + 1,
                                    get_user_mask(file, ret'.uid))))
                   /\ tasks' = tasks
              ELSE history = old]_vars

\* a chat message has been recorded in manual mode
C35_Witness ==
    /\ ret.op = "chat_manual"
    /\ get_response_mode(file) = "manual"
    /\ is_locked(file)
    /\ Len(get_domain(file).history) = 1

\* C36: while the disabled flag of a channel is true, a message other than
\* !on and !off leaves the session file, the lore and the rules as they
\* are; !off leaves the record with disabled true and !on with disabled
\* false, every other field and every other file as it was.
C36_OffChannelIgnoresMessages ==
    [][/\ (get_domain(file).disabled /\ ret'.op # "cmd_on_off")
          => (file' = file /\ disk' = disk)
       /\ ret'.op = "cmd_on_off"
          => /\ get_domain(file') =
                   [get_domain(file) EXCEPT !.disabled = ret'.disabled]
             /\ disk' = disk]_vars

\* a message has come in on a switched-off channel that has participants
C36_Witness ==
    /\ ret.op = "message_while_off"
    /\ get_domain(file).disabled
    /\ Participants(file) # NoParticipants

\* the texts the sends returned, each with the attempt that received it
TextsOf(sends) ==
    {ResponseText(i, sends[i].len) :
        i \in {j \in DOMAIN sends : sends[j].kind = "text"}}

\* C37: generate_response_with_retry ends after at most MAX_RETRY_COUNT
\* sends; it returns the first response as long as the minimum of the
\* thinking level, or else the longest of the shorter responses, or else
\* the system warning; what it returns is never empty, also when sends raise.
C37_RetryEndsWithAResponse ==
    /\ <>(ret.op = "generate_response_with_retry" /\ ret.done)
    /\ [](ret.op = "generate_response_with_retry"
          => /\ Len(ret.sends) <= MAX_RETRY_COUNT
             /\ ret.done
                => LET texts == TextsOf(ret.sends)
                       long == {t \in texts : t.len >= ret.min_length}
                   IN  /\ ret.result.len > 0
                       /\ ret.result.kind # "none"
                       /\ long # {}
                          => /\ ret.result \in long
                             /\ \A t \in long :
                                   t.attempt >= ret.result.attempt
                             /\ Len(ret.sends) = ret.result.attempt
                       /\ (long = {} /\ texts # {})
                          => /\ ret.result \in texts
                             /\ \A t \in texts : t.len <= ret.result.len
                             /\ Len(ret.sends) = MAX_RETRY_COUNT
                       /\ texts = {}
                          => /\ ret.result = SystemWarning
                             /\ Len(ret.sends) = MAX_RETRY_COUNT)

\* a send raised, two short responses came, the longer one is returned
C37_Witness ==
    /\ ret.op = "generate_response_with_retry"
    /\ ret.done
    /\ \E i \in DOMAIN ret.sends : ret.sends[i].kind = "raise"
    /\ Cardinality(TextsOf(ret.sends)) = 2
    /\ ret.result.kind = "response"
    /\ ret.result.len < ret.min_length
    /\ ret.result.len > 1

\* the quests of the list that the inputs name: the one at each index in
\* range and the first one that contains each keyword
MatchedQuests(inputs, active) ==
    {active[inputs[k].n] :
        k \in {j \in DOMAIN inputs :
                  inputs[j].digit /\ inputs[j].n \in DOMAIN active}}
    \cup {active[i] :
            i \in {m \in DOMAIN active :
                      \E k \in DOMAIN inputs :
                         /\ ~inputs[k].digit
                         /\ Contains(inputs[k].kw, active[m])
                         /\ \A l \in 1..(m - 1) :
                               ~Contains(inputs[k].kw, active[l])}}

\* C38: complete_quest removes from quest_board.active exactly the quests
\* its indices and keywords name in the list as it was before the call,
\* keeps the others in their order, appends one chronicle entry per removed
\* quest, and leaves the board as it was when nothing is named.
C38_CompleteQuestRemovesTheMatched ==
    [][ret'.op = "complete_quest"
       => LET old == get_quest_board(file)
              new == get_quest_board(file')
              matched == MatchedQuests(ret.inputs, old.active)
              IsKept(q) == q \notin matched
              added == SubSeq(new.lore, Len(old.lore) + 1, Len(new.lore))
          IN  /\ new.active = SelectSeq(old.active, IsKept)
              /\ Len(new.lore) = Len(old.lore) + Cardinality(matched)
              /\ SubSeq(new.lore, 1, Len(old.lore)) = old.lore
              /\ {added[i] : i \in DOMAIN added} =
                    {ChronicleEntry(q) : q \in matched}
              /\ new = [old EXCEPT !.active = new.active, !.lore = new.lore]
              /\ matched = {} => file' = file]_vars

\* one call has completed two of three quests
C38_Witness ==
    /\ ret.op = "complete_quest"
    /\ ret.removed = 2
    /\ Len(get_quest_board(file).active) = 1
    /\ Len(get_quest_board(file).lore) = 2

\* the thresholds that follow next_xp, and the sum of the first k of them
RECURSIVE ThresholdSum(_, _)
ThresholdSum(next_xp, k) ==
    IF k = 0 THEN 0
    ELSE next_xp + ThresholdSum(grown_threshold(next_xp), k - 1)

\* how many thresholds in a row a total of experience pays for
ThresholdsCrossed(total, next_xp) ==
    CHOOSE k \in 0..(total \div next_xp) :
        /\ ThresholdSum(next_xp, k) <= total
        /\ total < ThresholdSum(next_xp, k + 1)

\* C39: under the standard growth system gain_experience returns for every
\* participant record and every integer amount; for an amount >= 0 on a
\* record with 0 <= xp < next_xp the returned record has 0 <= xp < next_xp,
\* a level that is not lower, and a level raised by the number of
\* thresholds crossed.
C39_GainExperienceLevelsUp ==
    /\ [](GainRunning => <>(ret.op = "gain_experience" /\ ret.pc = "done"))
    /\ [](/\ ret.op = "gain_experience"
          /\ ret.pc = "done"
          /\ ret.system_type = "standard"
          /\ ret.amount >= 0
          /\ 0 <= ret.before.xp
          /\ ret.before.xp < ret.before.next_xp
          => /\ 0 <= ret.user_data.xp
             /\ ret.user_data.xp < ret.user_data.next_xp
             /\ ret.user_data.level >= ret.before.level
             /\ ret.user_data.level - ret.before.level =
                    ThresholdsCrossed(ret.before.xp + ret.amount,
                                      ret.before.next_xp)
             /\ get_participant_data(file, ret.uid).data = ret.user_data)

\* one award has crossed two thresholds of a record that had levelled before
C39_Witness ==
    /\ ret.op = "gain_experience"
    /\ ret.pc = "done"
    /\ ret.system_type = "standard"
    /\ ret.amount >= 0
    /\ 0 <= ret.before.xp
    /\ ret.before.xp < ret.before.next_xp
    /\ ret.before.level > 1
    /\ ret.user_data.level = ret.before.level + 2

====
